---- MODULE Spec2Model ----
(***************************************************************************)
(* Model of the proto-markdown parser (src/src/parser/MarkdownParser.ts).  *)
(*                                                                         *)
(* A string is a sequence of one-character strings; a document is a        *)
(* sequence of lines (the result of markdown.split("\n")).  Line indices   *)
(* are 0-based as in the source: lines[i] of the code is lines[i + 1]     *)
(* here.  Regular expressions are modelled by operators that compute the   *)
(* match a backtracking engine finds (lazy groups take the shortest        *)
(* admissible capture, greedy groups the longest).  The alphabet has no    *)
(* line terminator other than the "\n" the document was split on.          *)
(***************************************************************************)
EXTENDS Integers, Sequences, FiniteSets, TLC

VARIABLES lines, shape, opts, pc, stack, errors, threw, nodeStart, eofClosed,
          text, position, inline, parked, render

vars == <<lines, shape, opts, pc, stack, errors, threw, nodeStart, eofClosed,
          text, position, inline, parked, render>>

parseVars == <<lines, shape, opts, stack, errors, threw, nodeStart, eofClosed>>

emphVars == <<text, position, inline>>

(***************************************************************************)
(* String primitives of the JavaScript runtime                             *)
(***************************************************************************)
WS == {" ", "\t"}

IsWs(c) == c \in WS

Slice(s, a, b) == IF a > b THEN << >> ELSE SubSeq(s, a, b)

From(s, a) == Slice(s, a, Len(s))

StartsWith(s, p) == Len(s) >= Len(p) /\ SubSeq(s, 1, Len(p)) = p

EndsWith(s, p) == Len(s) >= Len(p) /\ SubSeq(s, Len(s) - Len(p) + 1, Len(s)) = p

MatchAt(s, k, p) == k >= 1 /\ k + Len(p) - 1 <= Len(s) /\ SubSeq(s, k, k + Len(p) - 1) = p

Includes(s, c) == \E k \in 1..Len(s) : s[k] = c

AllWs(s, a, b) == \A k \in a..b : IsWs(s[k])

\* first index >= a holding a non-whitespace character, Len(s) + 1 if none
SkipWs(s, a) ==
    IF \E k \in a..Len(s) : ~IsWs(s[k])
    THEN CHOOSE k \in a..Len(s) : ~IsWs(s[k]) /\ AllWs(s, a, k - 1)
    ELSE IF a > Len(s) THEN a ELSE Len(s) + 1

Trim(s) ==
    IF \A k \in 1..Len(s) : IsWs(s[k]) THEN << >>
    ELSE LET a == CHOOSE k \in 1..Len(s) : ~IsWs(s[k]) /\ AllWs(s, 1, k - 1)
             b == CHOOSE k \in 1..Len(s) : ~IsWs(s[k]) /\ AllWs(s, k + 1, Len(s))
         IN SubSeq(s, a, b)

\* indexOf from position a (1-based), 0 when absent
IndexOfFrom(s, c, a) ==
    IF \E k \in a..Len(s) : s[k] = c
    THEN CHOOSE k \in a..Len(s) : s[k] = c /\ \A j \in a..(k - 1) : s[j] # c
    ELSE 0

RECURSIVE SplitOn(_, _)
SplitOn(s, c) ==
    LET k == IndexOfFrom(s, c, 1)
    IN IF k = 0 THEN << s >>
       ELSE << Slice(s, 1, k - 1) >> \o SplitOn(From(s, k + 1), c)

RECURSIVE MapTrimFilter(_)
MapTrimFilter(parts) ==
    IF parts = << >> THEN << >>
    ELSE LET t == Trim(Head(parts))
         IN (IF Len(t) > 0 THEN << t >> ELSE << >>) \o MapTrimFilter(Tail(parts))

\* x.split(c).map(t => t.trim()).filter(t => t.length > 0)
SplitCells(s, c) == MapTrimFilter(SplitOn(s, c))

(***************************************************************************)
(* Inline Emphasis Tokenizer                                               *)
(***************************************************************************)
\* /^_\*(.+?)\*_/ on s.slice(p): length of the lazy capture, 0 if no match
BoldItalicLen(s, p) ==
    IF MatchAt(s, p, <<"_", "*">>) /\ \E n \in 1..Len(s) : MatchAt(s, p + 2 + n, <<"*", "_">>)
    THEN CHOOSE n \in 1..Len(s) :
            /\ MatchAt(s, p + 2 + n, <<"*", "_">>)
            /\ \A m \in 1..(n - 1) : ~MatchAt(s, p + 2 + m, <<"*", "_">>)
    ELSE 0

\* /^\*(.+?)\*/ and /^_(.+?)_/ on s.slice(p): length of the lazy capture
DelimLen(s, p, d) ==
    IF MatchAt(s, p, <<d>>) /\ IndexOfFrom(s, d, p + 2) # 0
    THEN IndexOfFrom(s, d, p + 2) - p - 1
    ELSE 0

\* the marker search started one character late
TextEndPastMarker(s, p) ==
    LET nextAsterisk == IndexOfFrom(s, "*", p + 1)
        nextUnderscore == IndexOfFrom(s, "_", p + 1)
        nextMarker == IF nextAsterisk # 0 /\ nextUnderscore # 0
                      THEN (IF nextAsterisk < nextUnderscore THEN nextAsterisk ELSE nextUnderscore)
                      ELSE IF nextAsterisk # 0 THEN nextAsterisk
                      ELSE nextUnderscore
    IN IF nextMarker = 0 THEN Len(s) + 1 ELSE nextMarker

\* position just past the plain run that starts at p (textEnd of the code)
TextEnd(s, p) ==
    LET nextAsterisk == IndexOfFrom(s, "*", p)
        nextUnderscore == IndexOfFrom(s, "_", p)
        nextMarker == IF nextAsterisk # 0 /\ nextUnderscore # 0
                      THEN (IF nextAsterisk < nextUnderscore THEN nextAsterisk ELSE nextUnderscore)
                      ELSE IF nextAsterisk # 0 THEN nextAsterisk
                      ELSE nextUnderscore
    IN IF nextMarker = 0 THEN Len(s) + 1 ELSE nextMarker

\* the italic form tried before the bold-italic form
EmphasisStepItalicFirst(s, p) ==
    LET bi == BoldItalicLen(s, p)
        b  == DelimLen(s, p, "*")
        it == DelimLen(s, p, "_")
        te == TextEnd(s, p)
    IN IF it > 0
       THEN [node |-> [type |-> "italic", content |-> SubSeq(s, p + 1, p + it)], next |-> p + it + 2]
       ELSE IF bi > 0
       THEN [node |-> [type |-> "bold",
                       children |-> << [type |-> "italic", content |-> SubSeq(s, p + 2, p + 1 + bi)] >>],
             next |-> p + bi + 4]
       ELSE IF b > 0
       THEN [node |-> [type |-> "bold", content |-> SubSeq(s, p + 1, p + b)], next |-> p + b + 2]
       ELSE IF te > p
       THEN [node |-> [type |-> "text", content |-> SubSeq(s, p, te - 1)], next |-> te]
       ELSE [node |-> [type |-> "text", content |-> SubSeq(s, p, p)], next |-> p + 1]

\* the position after a bold-italic match left before its closing "*_"
EmphasisStepShortAdvance(s, p) ==
    LET bi == BoldItalicLen(s, p)
        b  == DelimLen(s, p, "*")
        it == DelimLen(s, p, "_")
        te == TextEnd(s, p)
    IN IF bi > 0
       THEN [node |-> [type |-> "bold",
                       children |-> << [type |-> "italic", content |-> SubSeq(s, p + 2, p + 1 + bi)] >>],
             next |-> p + bi + 2]
       ELSE IF b > 0
       THEN [node |-> [type |-> "bold", content |-> SubSeq(s, p + 1, p + b)], next |-> p + b + 2]
       ELSE IF it > 0
       THEN [node |-> [type |-> "italic", content |-> SubSeq(s, p + 1, p + it)], next |-> p + it + 2]
       ELSE IF te > p
       THEN [node |-> [type |-> "text", content |-> SubSeq(s, p, te - 1)], next |-> te]
       ELSE [node |-> [type |-> "text", content |-> SubSeq(s, p, p)], next |-> p + 1]

\* one iteration of the while loop: the node pushed and the new position
EmphasisStep(s, p) ==
    LET bi == BoldItalicLen(s, p)
        b  == DelimLen(s, p, "*")
        it == DelimLen(s, p, "_")
        te == TextEnd(s, p)
    IN IF bi > 0
       THEN [node |-> [type |-> "bold",
                       children |-> << [type |-> "italic", content |-> SubSeq(s, p + 2, p + 1 + bi)] >>],
             next |-> p + bi + 4]
       ELSE IF b > 0
       THEN [node |-> [type |-> "bold", content |-> SubSeq(s, p + 1, p + b)], next |-> p + b + 2]
       ELSE IF it > 0
       THEN [node |-> [type |-> "italic", content |-> SubSeq(s, p + 1, p + it)], next |-> p + it + 2]
       ELSE IF te > p
       THEN [node |-> [type |-> "text", content |-> SubSeq(s, p, te - 1)], next |-> te]
       ELSE [node |-> [type |-> "text", content |-> SubSeq(s, p, p)], next |-> p + 1]

RECURSIVE EmphasisFrom(_, _)
EmphasisFrom(s, p) ==
    IF p > Len(s) THEN << >>
    ELSE LET r == EmphasisStep(s, p) IN << r.node >> \o EmphasisFrom(s, r.next)

parseInlineEmphasis(s) == EmphasisFrom(s, 1)

(***************************************************************************)
(* Line Classifier: the regular expressions of parseLine                   *)
(***************************************************************************)
NoMatch == [ok |-> FALSE]

\* number of leading characters of s equal to c
LeadCount(s, c) ==
    IF \A k \in 1..Len(s) : s[k] = c THEN Len(s)
    ELSE (CHOOSE k \in 1..Len(s) : s[k] # c /\ \A j \in 1..(k - 1) : s[j] = c) - 1

\* /^(#+)\s+(.+)$/: any number of "#"
headerMatchAnyLevel(line) ==
    LET h == LeadCount(line, "#")
        w == SkipWs(line, h + 1)
    IN IF h < 1 \/ w = h + 1 THEN NoMatch
       ELSE IF w <= Len(line) THEN [ok |-> TRUE, level |-> h, content |-> From(line, w)]
       ELSE IF w - (h + 1) >= 2 THEN [ok |-> TRUE, level |-> h, content |-> From(line, Len(line))]
       ELSE NoMatch

\* /^(#{1,6})\s+(.+)$/
headerMatch(line) ==
    LET h == LeadCount(line, "#")
        w == SkipWs(line, h + 1)
    IN IF h < 1 \/ h > 6 \/ w = h + 1 THEN NoMatch
       ELSE IF w <= Len(line) THEN [ok |-> TRUE, level |-> h, content |-> From(line, w)]
       ELSE IF w - (h + 1) >= 2 THEN [ok |-> TRUE, level |-> h, content |-> From(line, Len(line))]
       ELSE NoMatch

\* [ <non-]>+ ] starting at j: index of the closing bracket, 0 if none
OptionListEnd(s, j) ==
    LET c == IndexOfFrom(s, "]", j + 1)
    IN IF j <= Len(s) /\ s[j] = "[" /\ c >= j + 2 THEN c ELSE 0

\* (___|\|___\||__\*|__>(?:\s*\[[^\]]+\])?|__\[\]) at k: last index, 0 if none
MarkerEndAt(s, k) ==
    IF MatchAt(s, k, <<"_", "_", "_">>) THEN k + 2
    ELSE IF MatchAt(s, k, <<"|", "_", "_", "_", "|">>) THEN k + 4
    ELSE IF MatchAt(s, k, <<"_", "_", "*">>) THEN k + 2
    ELSE IF MatchAt(s, k, <<"_", "_", ">">>)
    THEN (LET c == OptionListEnd(s, SkipWs(s, k + 3)) IN IF c # 0 THEN c ELSE k + 2)
    ELSE IF MatchAt(s, k, <<"_", "_", "[", "]">>) THEN k + 3
    ELSE 0

\* the label captured greedily, (.+) in place of (.+?)
FieldMatchFromGreedy(s, start) ==
    LET Hit(q) == IsWs(s[q]) /\ MarkerEndAt(s, SkipWs(s, q)) # 0
    IN IF \E q \in (start + 1)..Len(s) : Hit(q)
       THEN LET q == CHOOSE q \in (start + 1)..Len(s) :
                        Hit(q) /\ \A r \in (q + 1)..Len(s) : ~Hit(r) \/ SkipWs(s, r) = SkipWs(s, q)
                m == SkipWs(s, q)
            IN [ok |-> TRUE, label |-> SubSeq(s, start, q - 1),
                marker |-> SubSeq(s, m, MarkerEndAt(s, m)), last |-> MarkerEndAt(s, m)]
       ELSE NoMatch

\* one match of fieldPattern searching from index start (lastIndex + 1)
FieldMatchFrom(s, start) ==
    LET Hit(q) == IsWs(s[q]) /\ MarkerEndAt(s, SkipWs(s, q)) # 0
    IN IF \E q \in (start + 1)..Len(s) : Hit(q)
       THEN LET q == CHOOSE q \in (start + 1)..Len(s) :
                        Hit(q) /\ \A r \in (start + 1)..(q - 1) : ~Hit(r)
                m == SkipWs(s, q)
            IN [ok |-> TRUE, label |-> SubSeq(s, start, q - 1),
                marker |-> SubSeq(s, m, MarkerEndAt(s, m)), last |-> MarkerEndAt(s, m)]
       ELSE NoMatch

\* [...line.matchAll(fieldPattern)]
RECURSIVE FieldMatchesFrom(_, _)
FieldMatchesFrom(s, start) ==
    LET m == FieldMatchFrom(s, start)
    IN IF m.ok THEN << m >> \o FieldMatchesFrom(s, m.last + 1) ELSE << >>

fieldMatches(line) == FieldMatchesFrom(line, 1)

\* options.split(",").map(trim).filter(nonempty)
OptionList(s) == SplitCells(s, ",")

\* the node built for one match of fieldPattern
FieldChild(m) ==
    LET label == Trim(m.label)
        marker == m.marker
    IN IF marker = <<"_", "_", "*">>
       THEN [type |-> "input", label |-> label, inputType |-> "password"]
       ELSE IF marker = <<"|", "_", "_", "_", "|">>
       THEN [type |-> "textarea", label |-> label]
       ELSE IF marker = <<"_", "_", "[", "]">>
       THEN [type |-> "checkbox", label |-> label]
       ELSE IF StartsWith(marker, <<"_", "_", ">">>)
       THEN (LET o == IndexOfFrom(marker, "[", 1)
             IN IF o # 0 /\ OptionListEnd(marker, o) # 0
                THEN [type |-> "dropdown", label |-> label,
                      options |-> OptionList(SubSeq(marker, o + 1, OptionListEnd(marker, o) - 1))]
                ELSE [type |-> "dropdown", label |-> label])
       ELSE [type |-> "input", label |-> label, inputType |-> "text"]

\* the fields after the first grouped into a container of their own
RECURSIVE FieldChildrenGrouped(_)
FieldChildrenGrouped(ms) ==
    IF Len(ms) <= 1 THEN [k \in 1..Len(ms) |-> FieldChild(ms[k])]
    ELSE << FieldChild(ms[1]),
            [type |-> "container", children |-> FieldChildrenGrouped(Tail(ms))] >>

FieldChildren(ms) == [k \in 1..Len(ms) |-> FieldChild(ms[k])]

\* /^(.+?)\s+X$/ for a literal X
SuffixMatch(line, X) ==
    LET e == Len(line) - Len(X)
    IN IF EndsWith(line, X) /\ e >= 2 /\ IsWs(line[e])
       THEN [ok |-> TRUE,
             label |-> SubSeq(line, 1, CHOOSE n \in 1..(e - 1) :
                          AllWs(line, n + 1, e) /\ \A m \in 1..(n - 1) : ~AllWs(line, m + 1, e))]
       ELSE NoMatch

\* /^(.+?)\s+X\s+\[(.+?)\]$/ for a literal X
SuffixOptionsMatch(line, X) ==
    LET Hit(n) == /\ IsWs(line[n + 1])
                  /\ MatchAt(line, SkipWs(line, n + 1), X)
                  /\ LET a == SkipWs(line, n + 1) + Len(X)
                         k == SkipWs(line, a)
                     IN /\ k > a
                        /\ k <= Len(line) - 2
                        /\ line[k] = "["
                        /\ line[Len(line)] = "]"
    IN IF \E n \in 1..(Len(line) - 1) : Hit(n)
       THEN LET n == CHOOSE n \in 1..(Len(line) - 1) : Hit(n) /\ \A m \in 1..(n - 1) : ~Hit(m)
                k == SkipWs(line, SkipWs(line, n + 1) + Len(X))
            IN [ok |-> TRUE, label |-> SubSeq(line, 1, n),
                options |-> SubSeq(line, k + 1, Len(line) - 1)]
       ELSE NoMatch

\* /^!\[([^\]]*)\]\(([^)]+)\)$/
imageMatch(line) ==
    LET c == IndexOfFrom(line, "]", 3)
    IN IF /\ MatchAt(line, 1, <<"!", "[">>)
          /\ c # 0
          /\ MatchAt(line, c + 1, <<"(">>)
          /\ Len(line) >= c + 3
          /\ line[Len(line)] = ")"
          /\ IndexOfFrom(line, ")", c + 2) = Len(line)
       THEN [ok |-> TRUE, alt |-> Slice(line, 3, c - 1), src |-> SubSeq(line, c + 2, Len(line) - 1)]
       ELSE NoMatch

\* one group \[\(?[^\[\]|]+\)?\]\s* starting at k: index of its "]", 0 if none
GroupEnd(s, k) ==
    LET c == IndexOfFrom(s, "]", k + 1)
    IN IF /\ k <= Len(s)
          /\ s[k] = "["
          /\ c >= k + 2
          /\ \A j \in (k + 1)..(c - 1) : s[j] \notin {"[", "|"}
       THEN c ELSE 0

\* the bracket groups of a line matching /^(\[\(?[^\[\]|]+\)?\]\s*)+$/ from k on;
\* << >> when the line from k on is not such a row
RECURSIVE ButtonGroups(_, _)
ButtonGroups(s, k) ==
    LET c == GroupEnd(s, k)
        j == SkipWs(s, c + 1)
    IN IF c = 0 THEN << >>
       ELSE IF j > Len(s) THEN << SubSeq(s, k, c) >>
       ELSE LET rest == ButtonGroups(s, j)
            IN IF rest = << >> THEN << >> ELSE << SubSeq(s, k, c) >> \o rest

multiButtonMatch(line) == ButtonGroups(line, 1)

\* btn.match(/\[(\(?)(.+?)(\)?)\]/) on one group and the button built from it
MultiButtonChild(btn) ==
    LET inner == SubSeq(btn, 2, Len(btn) - 1)
        open == Len(inner) >= 2 /\ inner[1] = "("
        body == IF open THEN Tail(inner) ELSE inner
        close == Len(body) >= 2 /\ body[Len(body)] = ")"
        content == IF close THEN SubSeq(body, 1, Len(body) - 1) ELSE body
    IN [type |-> "button", content |-> content,
        variant |-> IF open /\ close THEN "default" ELSE "outline"]

MultiButtonChildren(bs) == [k \in 1..Len(bs) |-> MultiButtonChild(bs[k])]

\* (?:\s*\|\s*(.+))?\]$ after index p: ok, and the class capture when present
ClassTail(line, p) ==
    LET j == SkipWs(line, p + 1)
    IN IF p + 1 = Len(line) /\ line[Len(line)] = "]" THEN [ok |-> TRUE, has |-> FALSE]
       ELSE IF /\ j <= Len(line) - 2
               /\ line[j] = "|"
               /\ line[Len(line)] = "]"
       THEN [ok |-> TRUE, has |-> TRUE, className |-> Trim(SubSeq(line, j + 1, Len(line) - 1))]
       ELSE NoMatch

\* /^\[\((.+?)\)(?:\s*\|\s*(.+))?\]$/
defaultButtonMatch(line) ==
    LET Hit(p) == line[p] = ")" /\ ClassTail(line, p).ok
    IN IF MatchAt(line, 1, <<"[", "(">>) /\ \E p \in 4..Len(line) : Hit(p)
       THEN LET p == CHOOSE p \in 4..Len(line) : Hit(p) /\ \A r \in 4..(p - 1) : ~Hit(r)
            IN [ok |-> TRUE, content |-> SubSeq(line, 3, p - 1), tail |-> ClassTail(line, p)]
       ELSE NoMatch

\* /^\[([^|]+?)(?:\s*\|\s*(.+))?\]$/
buttonMatch(line) ==
    LET Hit(p) == (\A j \in 2..p : line[j] # "|") /\ ClassTail(line, p).ok
    IN IF MatchAt(line, 1, <<"[">>) /\ \E p \in 2..Len(line) : Hit(p)
       THEN LET p == CHOOSE p \in 2..Len(line) : Hit(p) /\ \A r \in 2..(p - 1) : ~Hit(r)
            IN [ok |-> TRUE, content |-> SubSeq(line, 2, p), tail |-> ClassTail(line, p)]
       ELSE NoMatch

\* { type: "button", content, variant, ...(className && { className }) }
Button(content, variant, tail) ==
    IF tail.has /\ Len(tail.className) > 0
    THEN [type |-> "button", content |-> content, variant |-> variant, className |-> tail.className]
    ELSE [type |-> "button", content |-> content, variant |-> variant]

textFallbackNull(line) == [type |-> "null"]

\* return { type: "text", children: this.parseInlineEmphasis(line) }
textFallback(line) == [type |-> "text", children |-> parseInlineEmphasis(line)]

\* the outline-button pattern tested before the multi-button and default-button patterns
parseLineOutlineFirst(line) ==
    LET hm == headerMatch(line)
        fm == fieldMatches(line)
        pw == SuffixMatch(line, <<"_", "_", "*">>)
        ta == SuffixMatch(line, <<"|", "_", "_", "_", "|">>)
        inp == SuffixMatch(line, <<"_", "_", "_">>)
        cb == SuffixMatch(line, <<"_", "_", "[", "]">>)
        rg == SuffixOptionsMatch(line, <<"_", "_", "(", ")">>)
        ddo == SuffixOptionsMatch(line, <<"_", "_", ">">>)
        dd == SuffixMatch(line, <<"_", "_", ">">>)
        im == imageMatch(line)
        mb == multiButtonMatch(line)
        db == defaultButtonMatch(line)
        ob == buttonMatch(line)
    IN IF hm.ok
       THEN [type |-> "header", level |-> hm.level, children |-> parseInlineEmphasis(hm.content)]
       ELSE IF Len(fm) > 1
       THEN [type |-> "container", children |-> FieldChildren(fm)]
       ELSE IF pw.ok THEN [type |-> "input", label |-> pw.label, inputType |-> "password"]
       ELSE IF ta.ok THEN [type |-> "textarea", label |-> ta.label]
       ELSE IF inp.ok THEN [type |-> "input", label |-> inp.label, inputType |-> "text"]
       ELSE IF cb.ok THEN [type |-> "checkbox", label |-> cb.label]
       ELSE IF rg.ok
       THEN [type |-> "radiogroup", label |-> rg.label, options |-> OptionList(rg.options)]
       ELSE IF ddo.ok
       THEN [type |-> "dropdown", label |-> ddo.label, options |-> OptionList(ddo.options)]
       ELSE IF dd.ok THEN [type |-> "dropdown", label |-> dd.label]
       ELSE IF im.ok THEN [type |-> "image", alt |-> im.alt, src |-> im.src]
       ELSE IF ob.ok THEN Button(Trim(ob.content), "outline", ob.tail)
       ELSE IF Len(mb) > 1
       THEN [type |-> "container", children |-> MultiButtonChildren(mb)]
       ELSE IF db.ok THEN Button(db.content, "default", db.tail)
       ELSE textFallback(line)

parseLine(line) ==
    LET hm == headerMatch(line)
        fm == fieldMatches(line)
        pw == SuffixMatch(line, <<"_", "_", "*">>)
        ta == SuffixMatch(line, <<"|", "_", "_", "_", "|">>)
        inp == SuffixMatch(line, <<"_", "_", "_">>)
        cb == SuffixMatch(line, <<"_", "_", "[", "]">>)
        rg == SuffixOptionsMatch(line, <<"_", "_", "(", ")">>)
        ddo == SuffixOptionsMatch(line, <<"_", "_", ">">>)
        dd == SuffixMatch(line, <<"_", "_", ">">>)
        im == imageMatch(line)
        mb == multiButtonMatch(line)
        db == defaultButtonMatch(line)
        ob == buttonMatch(line)
    IN IF hm.ok
       THEN [type |-> "header", level |-> hm.level, children |-> parseInlineEmphasis(hm.content)]
       ELSE IF Len(fm) > 1
       THEN [type |-> "container", children |-> FieldChildren(fm)]
       ELSE IF pw.ok THEN [type |-> "input", label |-> pw.label, inputType |-> "password"]
       ELSE IF ta.ok THEN [type |-> "textarea", label |-> ta.label]
       ELSE IF inp.ok THEN [type |-> "input", label |-> inp.label, inputType |-> "text"]
       ELSE IF cb.ok THEN [type |-> "checkbox", label |-> cb.label]
       ELSE IF rg.ok
       THEN [type |-> "radiogroup", label |-> rg.label, options |-> OptionList(rg.options)]
       ELSE IF ddo.ok
       THEN [type |-> "dropdown", label |-> ddo.label, options |-> OptionList(ddo.options)]
       ELSE IF dd.ok THEN [type |-> "dropdown", label |-> dd.label]
       ELSE IF im.ok THEN [type |-> "image", alt |-> im.alt, src |-> im.src]
       ELSE IF Len(mb) > 1
       THEN [type |-> "container", children |-> MultiButtonChildren(mb)]
       ELSE IF db.ok THEN Button(db.content, "default", db.tail)
       ELSE IF ob.ok THEN Button(Trim(ob.content), "outline", ob.tail)
       ELSE textFallback(line)

(***************************************************************************)
(* Line Scanner and Container Parser                                       *)
(***************************************************************************)
\* one closer token for every kind
CloserBracket(fn) == <<"]">>

\* cardLine === "--]" in parseCard, containerLine === "]" in parseContainer
Closer(fn) == IF fn = "parseCard" THEN <<"-", "-", "]">> ELSE <<"]">>

ParseLoopCondOffByOne(i) == i <= Len(lines)

FrameLoopCondDepthOnly(f) == f.depth > 0

FrameLoopCondSkipsLast(f) == f.i < Len(lines) - 1 /\ f.depth > 0

\* the loop conditions  while (i < lines.length [&& depth > 0])
ParseLoopCond(i) == i < Len(lines)

FrameLoopCond(f) == f.i < Len(lines) /\ f.depth > 0


InRange(i) == (i + 1) \in DOMAIN lines

\* the line trimmed whatever the option says
LineAtTrimmed(i) == Trim(lines[i + 1])

\* this.options.preserveWhitespace ? lines[i] : lines[i].trim()
LineAt(i) == IF opts.preserveWhitespace THEN lines[i + 1] ELSE Trim(lines[i + 1])

\* the number of "|" in a line
PipeCount(line) == Cardinality({ k \in 1..Len(line) : line[k] = "|" })

\* a table header needs a second "|"
IsTableLineTwoPipes(line) == StartsWith(Trim(line), <<"|">>) /\ PipeCount(line) >= 2

\* line.includes("|") && line.trim().startsWith("|")
IsTableLine(line) == Includes(line, "|") /\ StartsWith(Trim(line), <<"|">>)

\* a line that ends with "--]" is no card opener
cardMatchOpenOnly(line) ==
    IF StartsWith(line, <<"[", "-", "-">>) /\ ~EndsWith(line, <<"-", "-", "]">>)
    THEN [ok |-> TRUE, arg |-> From(line, SkipWs(line, 4))] ELSE NoMatch

\* /^\[--\s*(.*)$/
cardMatch(line) ==
    IF StartsWith(line, <<"[", "-", "-">>)
    THEN [ok |-> TRUE, arg |-> From(line, SkipWs(line, 4))] ELSE NoMatch

\* /^\[grid\s+(.*)$/
gridMatch(line) ==
    IF StartsWith(line, <<"[", "g", "r", "i", "d">>) /\ Len(line) >= 6 /\ IsWs(line[6])
    THEN [ok |-> TRUE, arg |-> From(line, SkipWs(line, 6))] ELSE NoMatch

\* the div opener test without the exclusion of lines holding "]"
divMatchAnyBracket(line) ==
    IF StartsWith(line, <<"[">>)
    THEN [ok |-> TRUE, arg |-> From(line, SkipWs(line, 2))] ELSE NoMatch

\* /^\[\s*(.*)$/ && !line.includes("]")
divMatch(line) ==
    IF StartsWith(line, <<"[">>) /\ ~Includes(line, "]")
    THEN [ok |-> TRUE, arg |-> From(line, SkipWs(line, 2))] ELSE NoMatch

\* the opener dispatch shared by parse, parseCard and parseContainer:
\* card before grid before div
Opener(line) ==
    IF cardMatch(line).ok THEN [fn |-> "parseCard", type |-> "card", arg |-> cardMatch(line).arg]
    ELSE IF gridMatch(line).ok
    THEN [fn |-> "parseContainer", type |-> "grid", arg |-> gridMatch(line).arg]
    ELSE IF divMatch(line).ok
    THEN [fn |-> "parseContainer", type |-> "div", arg |-> divMatch(line).arg]
    ELSE [fn |-> "none"]

\* the frame of a call parseCard(lines, startIndex, title) or
\* parseContainer(lines, startIndex, type, config)
NewFrame(o, startIndex) ==
    [fn |-> o.fn, type |-> o.type, arg |-> o.arg, startIndex |-> startIndex,
     i |-> startIndex + 1, depth |-> 1, children |-> << >>]

\* the card node with titleChildren set whether or not there is a title
FrameNodeAlwaysTitle(f) ==
    IF f.type = "card"
    THEN [type |-> "card", titleChildren |-> parseInlineEmphasis(f.arg), children |-> f.children]
    ELSE IF f.type = "grid"
    THEN [type |-> "grid", children |-> f.children, gridConfig |-> f.arg]
    ELSE IF Len(f.arg) > 0
    THEN [type |-> "div", children |-> f.children, className |-> f.arg]
    ELSE [type |-> "div", children |-> f.children]

\* the node a container call returns
FrameNode(f) ==
    IF f.type = "card"
    THEN (IF Len(f.arg) > 0
          THEN [type |-> "card", titleChildren |-> parseInlineEmphasis(f.arg), children |-> f.children]
          ELSE [type |-> "card", children |-> f.children])
    ELSE IF f.type = "grid"
    THEN [type |-> "grid", children |-> f.children, gridConfig |-> f.arg]
    ELSE IF Len(f.arg) > 0
    THEN [type |-> "div", children |-> f.children, className |-> f.arg]
    ELSE [type |-> "div", children |-> f.children]

NextIndexOnCloser(f) == f.i

\* nextIndex of the value a container call returns
NextIndex(f) == f.i + 1

AfterSeparatorNoSkip(i) == i

\* the skip of the separator line (|---|---|) after a table header at i
AfterSeparator(i) ==
    IF i < Len(lines) /\ Includes(LineAt(i), "-") /\ Includes(LineAt(i), "|")
    THEN i + 1 ELSE i

\* the rows loop taking the line it stops at with it
RECURSIVE TableRowsEatsStop(_)
TableRowsEatsStop(i) ==
    IF i < Len(lines) /\ LineAt(i) # << >> /\ Includes(LineAt(i), "|")
    THEN LET r == TableRowsEatsStop(i + 1)
         IN [rows |-> << SplitCells(LineAt(i), "|") >> \o r.rows, next |-> r.next]
    ELSE [rows |-> << >>, next |-> IF i < Len(lines) THEN i + 1 ELSE i]

\* the rows loop of the table branch, from line i on
RECURSIVE TableRows(_)
TableRows(i) ==
    IF i < Len(lines) /\ LineAt(i) # << >> /\ Includes(LineAt(i), "|")
    THEN LET r == TableRows(i + 1)
         IN [rows |-> << SplitCells(LineAt(i), "|") >> \o r.rows, next |-> r.next]
    ELSE [rows |-> << >>, next |-> i]

Top == stack[Len(stack)]

SetTop(f) == [stack EXCEPT ![Len(stack)] = f]

\* nodes.push(node) / children.push(node) in the caller, with its cursor set to i
Deliver(st, node, i) ==
    LET k == Len(st)
    IN [st EXCEPT ![k] = [@ EXCEPT !.children = Append(@, node), !.i = i]]

\* the line the running frame reads in this iteration
CurLine == LineAt(Top.i)

\* an iteration of the loop of parse is due
ParseIter == pc = "parse" /\ Len(stack) = 1 /\ ParseLoopCond(Top.i)

\* an iteration of the loop of parseCard (fn = "parseCard") or parseContainer is due
FrameIter(fn) == pc = "parse" /\ Len(stack) > 1 /\ Top.fn = fn /\ FrameLoopCond(Top)

\* the branch conditions of the three loops, in the order of the code
ParseBlankGuard == ParseIter /\ (~InRange(Top.i) \/ CurLine = << >>)

ParseTableGuard == ParseIter /\ InRange(Top.i) /\ CurLine # << >> /\ IsTableLine(CurLine)

ParseOpenGuard ==
    /\ ParseIter /\ InRange(Top.i) /\ CurLine # << >> /\ ~IsTableLine(CurLine)
    /\ Opener(CurLine).fn # "none"

ParseLeafGuard ==
    /\ ParseIter /\ InRange(Top.i) /\ CurLine # << >> /\ ~IsTableLine(CurLine)
    /\ Opener(CurLine).fn = "none"

ParseDoneGuard == pc = "parse" /\ Len(stack) = 1 /\ ~ParseLoopCond(Top.i)

FrameCloseGuard(fn) == FrameIter(fn) /\ (~InRange(Top.i) \/ CurLine = Closer(fn))

FrameOpenGuard(fn) ==
    FrameIter(fn) /\ InRange(Top.i) /\ CurLine # Closer(fn) /\ Opener(CurLine).fn # "none"

FrameLeafGuard(fn) ==
    FrameIter(fn) /\ InRange(Top.i) /\ CurLine # Closer(fn) /\ Opener(CurLine).fn = "none"

FrameEofGuard(fn) == pc = "parse" /\ Len(stack) > 1 /\ Top.fn = fn /\ ~FrameLoopCond(Top)

\* a blank line pushed as an empty text node instead of skipped
ParseBlankAsText ==
    /\ ParseBlankGuard
    /\ stack' = Deliver(stack, textFallback(<< >>), Top.i + 1)
    /\ nodeStart' = Append(nodeStart, Top.i)
    /\ UNCHANGED <<lines, shape, opts, pc, errors, threw, eofClosed, emphVars, parked, render>>

\* parse, lines 20-26: read the line, skip it when blank
ParseBlank ==
    /\ ParseBlankGuard
    /\ IF ~InRange(Top.i) /\ ~opts.preserveWhitespace
       THEN /\ threw' = TRUE /\ pc' = "threw"
            /\ UNCHANGED <<stack>>
       ELSE /\ stack' = SetTop([Top EXCEPT !.i = @ + 1])
            /\ UNCHANGED <<threw, pc>>
    /\ UNCHANGED <<lines, shape, opts, errors, nodeStart, eofClosed, emphVars, parked, render>>

\* parse, lines 30-69: the table whose header is line i, and the cursor after it
TableAt(i) ==
    LET r == TableRows(AfterSeparator(i + 1))
    IN [node |-> [type |-> "table", headers |-> SplitCells(LineAt(i), "|"), rows |-> r.rows],
        next |-> r.next]

\* parse, lines 28-71: the table branch
ParseTable ==
    /\ ParseTableGuard
    /\ stack' = Deliver(stack, TableAt(Top.i).node, TableAt(Top.i).next)
    /\ nodeStart' = Append(nodeStart, Top.i)
    /\ UNCHANGED <<lines, shape, opts, pc, errors, threw, eofClosed, emphVars, parked, render>>

\* parse, lines 73-98: a card, grid or div opener calls the container parser
ParseOpen ==
    /\ ParseOpenGuard
    /\ stack' = Append(stack, NewFrame(Opener(CurLine), Top.i))
    /\ UNCHANGED <<lines, shape, opts, pc, errors, threw, nodeStart, eofClosed, emphVars, parked, render>>

\* parse, lines 100-106: every other line goes to the Line Classifier
ParseLeaf ==
    /\ ParseLeafGuard
    /\ IF parseLine(CurLine).type # "null"
       THEN /\ stack' = Deliver(stack, parseLine(CurLine), Top.i + 1)
            /\ nodeStart' = Append(nodeStart, Top.i)
            /\ UNCHANGED errors
       ELSE /\ stack' = SetTop([Top EXCEPT !.i = @ + 1])
            /\ errors' = IF opts.strict THEN Append(errors, Top.i + 1) ELSE errors
            /\ UNCHANGED nodeStart
    /\ UNCHANGED <<lines, shape, opts, pc, threw, eofClosed, emphVars, parked, render>>

\* parse, line 109: the loop ends and the result is returned
ParseDone ==
    /\ ParseDoneGuard
    /\ pc' = "done"
    /\ UNCHANGED <<parseVars, emphVars, parked, render>>

\* return { node, nextIndex } to the calling frame
Return(byEof) ==
    /\ stack' = Deliver(SubSeq(stack, 1, Len(stack) - 1), FrameNode(Top), NextIndex(Top))
    /\ nodeStart' = IF Len(stack) = 2 THEN Append(nodeStart, Top.startIndex) ELSE nodeStart
    /\ eofClosed' = IF Len(stack) = 2 /\ byEof THEN Top.startIndex ELSE eofClosed

\* parseCard 122-131 / parseContainer 190-199: read the line, test the closer
FrameClose(fn) ==
    /\ FrameCloseGuard(fn)
    /\ IF ~InRange(Top.i)
       THEN /\ threw' = TRUE /\ pc' = "threw"
            /\ UNCHANGED <<stack, nodeStart, eofClosed>>
       ELSE /\ IF Top.depth - 1 = 0
               THEN Return(FALSE)
               ELSE /\ stack' = SetTop([Top EXCEPT !.depth = @ - 1, !.i = @ + 1,
                                            !.children = Append(@, parseLine(CurLine))])
                    /\ UNCHANGED <<nodeStart, eofClosed>>
            /\ UNCHANGED <<threw, pc>>
    /\ UNCHANGED <<lines, shape, opts, errors, emphVars, parked, render>>

\* parseCard 133-158 / parseContainer 201-226: a nested opener recurses
FrameOpen(fn) ==
    /\ FrameOpenGuard(fn)
    /\ stack' = Append(stack, NewFrame(Opener(CurLine), Top.i))
    /\ UNCHANGED <<lines, shape, opts, pc, errors, threw, nodeStart, eofClosed, emphVars, parked, render>>

\* parseCard 160-166 / parseContainer 228-234: a content line, or a blank one
FrameLeaf(fn) ==
    /\ FrameLeafGuard(fn)
    /\ stack' = IF CurLine # << >> /\ parseLine(CurLine).type # "null"
                THEN SetTop([Top EXCEPT !.children = Append(@, parseLine(CurLine)), !.i = @ + 1])
                ELSE SetTop([Top EXCEPT !.i = @ + 1])
    /\ UNCHANGED <<lines, shape, opts, pc, errors, threw, nodeStart, eofClosed, emphVars, parked, render>>

\* parseCard 169-176 / parseContainer 237-251: the loop ran out of lines
FrameEof(fn) ==
    /\ FrameEofGuard(fn)
    /\ Return(TRUE)
    /\ UNCHANGED <<lines, shape, opts, pc, errors, threw, emphVars, parked, render>>

CardClose == FrameClose("parseCard")

CardOpen == FrameOpen("parseCard")

CardLeaf == FrameLeaf("parseCard")

CardEof == FrameEof("parseCard")

ContainerClose == FrameClose("parseContainer")

ContainerOpen == FrameOpen("parseContainer")

ContainerLeaf == FrameLeaf("parseContainer")

ContainerEof == FrameEof("parseContainer")

(***************************************************************************)
(* parse as a function of its input: the three loops run to their end      *)
(***************************************************************************)
\* the line read without trimming, whatever the option says
LineOfRaw(ls, o, i) == ls[i + 1]

\* this.options.preserveWhitespace ? lines[i] : lines[i].trim()
LineOf(ls, o, i) == IF o.preserveWhitespace THEN ls[i + 1] ELSE Trim(ls[i + 1])

\* parse, lines 35-44: the index after the optional separator line at i
SeparatorSkip(ls, o, i) ==
    IF i < Len(ls) /\ Includes(LineOf(ls, o, i), "-") /\ Includes(LineOf(ls, o, i), "|")
    THEN i + 1 ELSE i

\* parse, lines 46-63: the rows from line i on and the index after them
RECURSIVE RowsFrom(_, _, _)
RowsFrom(ls, o, i) ==
    IF i < Len(ls) /\ LineOf(ls, o, i) # << >> /\ Includes(LineOf(ls, o, i), "|")
    THEN LET r == RowsFrom(ls, o, i + 1)
         IN [rows |-> << SplitCells(LineOf(ls, o, i), "|") >> \o r.rows, next |-> r.next]
    ELSE [rows |-> << >>, next |-> i]

\* parse, lines 28-71: the table whose header is line i
TableOf(ls, o, i) ==
    LET r == RowsFrom(ls, o, SeparatorSkip(ls, o, i + 1))
    IN [node |-> [type |-> "table", headers |-> SplitCells(LineOf(ls, o, i), "|"),
                  rows |-> r.rows],
        next |-> r.next]

\* parseCard / parseContainer from the state f of its locals to its return
\* value { node, nextIndex }
RECURSIVE RunFrame(_, _, _)
RunFrame(ls, o, f) ==
    IF ~(f.i < Len(ls) /\ f.depth > 0) THEN [node |-> FrameNode(f), next |-> f.i + 1]
    ELSE LET l == LineOf(ls, o, f.i)
         IN IF l = Closer(f.fn) THEN [node |-> FrameNode(f), next |-> f.i + 1]
            ELSE IF Opener(l).fn # "none"
            THEN LET r == RunFrame(ls, o, NewFrame(Opener(l), f.i))
                 IN RunFrame(ls, o, [f EXCEPT !.children = Append(@, r.node), !.i = r.next])
            ELSE IF l # << >>
            THEN RunFrame(ls, o, [f EXCEPT !.children = Append(@, parseLine(l)), !.i = @ + 1])
            ELSE RunFrame(ls, o, [f EXCEPT !.i = @ + 1])

\* the loop of parse from line i on with the nodes ns pushed so far
RECURSIVE RunParse(_, _, _, _)
RunParse(ls, o, i, ns) ==
    IF ~(i < Len(ls)) THEN ns
    ELSE LET l == LineOf(ls, o, i)
         IN IF l = << >> THEN RunParse(ls, o, i + 1, ns)
            ELSE IF IsTableLine(l)
            THEN RunParse(ls, o, TableOf(ls, o, i).next, Append(ns, TableOf(ls, o, i).node))
            ELSE IF Opener(l).fn # "none"
            THEN LET r == RunFrame(ls, o, NewFrame(Opener(l), i))
                 IN RunParse(ls, o, r.next, Append(ns, r.node))
            ELSE RunParse(ls, o, i + 1, Append(ns, parseLine(l)))

\* parse(markdown).nodes for the parser options o
ParseNodes(ls, o) == RunParse(ls, o, 0, << >>)

(***************************************************************************)
(* Two calls of parse on one parser instance, run in any interleaving:     *)
(* the running call owns lines, nodes, errors and its cursors; the other   *)
(* call's locals are parked; the options belong to the instance, and       *)
(* parked.options records the ones it was constructed with                 *)
(***************************************************************************)
\* the locals of the running call
Locals ==
    [lines |-> lines, shape |-> shape, pc |-> pc, stack |-> stack, errors |-> errors,
     threw |-> threw, nodeStart |-> nodeStart, eofClosed |-> eofClosed]

\* the running call is between two iterations, after its first
MidRun == pc = "parse" /\ (Len(stack) > 1 \/ Top.i > 0)

\* the cursor kept in the instance: the resumed call goes on from the
\* cursor of the call that ran last
ResumedSharedCursor(c) == [c.stack EXCEPT ![Len(c.stack)].i = Top.i]

\* the nodes and cursors the resumed call goes on with: its own
Resumed(c) == c.stack

\* the other call runs next
Switch ==
    /\ parked.pc = "parse"
    /\ pc \in {"parse", "done"}
    /\ parked' = [Locals EXCEPT !.pc = pc] @@ [mid |-> parked.mid \/ MidRun, options |-> parked.options]
    /\ lines' = parked.lines
    /\ shape' = parked.shape
    /\ pc' = parked.pc
    /\ stack' = Resumed(parked)
    /\ errors' = parked.errors
    /\ threw' = parked.threw
    /\ nodeStart' = parked.nodeStart
    /\ eofClosed' = parked.eofClosed
    /\ UNCHANGED <<opts, emphVars, render>>

(***************************************************************************)
(* HtmlGenerator.renderWorkflow (src/unnamed/part_002): the callback of     *)
(* children.map runs once per screen, then the pieces are joined.  Of the  *)
(* markup of a screen the model keeps its class list, its data-screen-id   *)
(* and whether the Initial badge is there; the screen's content is left    *)
(* out.                                                                    *)
(***************************************************************************)
\* const isInitial = screen.id === node.initialScreen || idx === 0
isInitial(node, screen, idx) ==
    \/ ("initialScreen" \in DOMAIN node /\ screen.id = node.initialScreen)
    \/ idx = 0

\* the <div class="proto-screen..."> the callback returns for one screen
ScreenHtml(node, screen, idx) ==
    [class |-> IF isInitial(node, screen, idx)
               THEN <<"proto-screen", "proto-screen-active">> ELSE <<"proto-screen">>,
     screenId |-> screen.id,
     badges |-> IF isInitial(node, screen, idx)
                THEN <<"proto-screen-badge", "proto-screen-initial">> ELSE <<"proto-screen-badge">>]

\* one call of the callback of (node.children || []).map
RenderScreenIter ==
    /\ render.pc = "map" /\ render.idx < Len(render.node.children)
    /\ render' = [render EXCEPT
                    !.idx = @ + 1,
                    !.screens = Append(@, ScreenHtml(render.node,
                                                     render.node.children[render.idx + 1],
                                                     render.idx))]
    /\ UNCHANGED <<pc, parseVars, emphVars, parked>>

\* .join("") and the return of renderWorkflow
RenderJoin ==
    /\ render.pc = "map" /\ render.idx = Len(render.node.children)
    /\ render' = [render EXCEPT !.pc = "done"]
    /\ UNCHANGED <<pc, parseVars, emphVars, parked>>

(***************************************************************************)
(* One iteration of the tokenizer loop as a step of its own                *)
(***************************************************************************)
\* parseInlineEmphasis, lines 477-547: one iteration of the while loop
EmphasisIter ==
    /\ pc = "emphasis" /\ position < Len(text)
    /\ LET r == EmphasisStep(text, position + 1)
       IN /\ inline' = Append(inline, r.node)
          /\ position' = r.next - 1
    /\ UNCHANGED <<pc, text, parseVars, parked, render>>

\* parseInlineEmphasis, line 549: return nodes
EmphasisDone ==
    /\ pc = "emphasis" /\ ~(position < Len(text))
    /\ pc' = "emphasisDone"
    /\ UNCHANGED <<emphVars, parseVars, parked, render>>

(***************************************************************************)
(* Inputs                                                                  *)
(***************************************************************************)
MaxLines == 3

MaxTableLines == 3

MaxDepth == 3

MaxLeaves == 1

MaxFieldTokens == 3

MaxFields == 3

MaxButtonTokens == 3

MaxScreens == 2

MaxText == 7

\* lines of the general documents: blank, text, openers, closers, an indented closer
LinePool ==
    { << >>,
      <<"a">>,
      <<"[", "-", "-">>,
      <<"-", "-", "]">>,
      <<"[", "g", "r", "i", "d", " ", "c">>,
      <<"[">>,
      <<"]">>,
      <<" ", "]">> }

\* lines of the table documents: header, separator, row with a blank cell, text, blank, lone pipe
TablePool ==
    { <<"|", " ", "h", " ", "|", " ", "k", " ", "|">>,
      <<"|", "-", "|", "-", "|">>,
      <<"|", " ", "x", " ", "|", " ", " ", "|", " ", "y">>,
      <<"a">>,
      << >>,
      <<"|">> }

\* leaf lines put inside nested containers
LeafPool ==
    { <<"a">>,
      <<"b", " ", "_", "_", "_">> }

\* pieces of form-field lines
FieldTokens ==
    { <<"a", " ", "_", "_", "_">>,
      <<"b", " ", "_", "_", "*">>,
      <<"c", " ", "|", "_", "_", "_", "|">>,
      <<"d", " ", "_", "_", ">">>,
      <<"e", " ", "_", "_", ">", " ", "[", "x", ",", " ", "y", "]">>,
      <<"f", " ", "_", "_", "[", "]">>,
      <<"_", "_", "_">>,
      <<" ">>,
      <<"a">> }

\* pieces of button lines
ButtonTokens ==
    { <<"[", "(", "a", ")", "]">>,
      <<"[", "b", "]">>,
      <<"[", "(", "a", ")", " ", "-", ">", " ", "t", "]">>,
      <<"[", "b", " ", "-", ">", " ", "t", "]">>,
      <<"[", "(", "a", ")", " ", "|", " ", "c", "]">>,
      <<"[", "b", " ", "|", " ", "c", "]">>,
      <<" ">>,
      <<"a">> }

\* alphabet of the texts given to the tokenizer (one-character strings)
TextAlphabet ==
    { "a",
      "*",
      "_" }

RECURSIVE Flatten(_)
Flatten(ss) == IF ss = << >> THEN << >> ELSE Head(ss) \o Flatten(Tail(ss))

SeqsUpTo(S, n) == UNION { [1..k -> S] : k \in 1..n }

Concats(S, n) == { Flatten(ss) : ss \in SeqsUpTo(S, n) }

Kinds == {"card", "grid", "div"}

OpenerLine(kind) ==
    IF kind = "card" THEN <<"[", "-", "-", " ", "a">>
    ELSE IF kind = "grid" THEN <<"[", "g", "r", "i", "d", " ", "c">>
    ELSE <<"[">>

CloserLine(kind) == IF kind = "card" THEN <<"-", "-", "]">> ELSE <<"]">>

Repeat(l, n) == [k \in 1..n |-> l]

\* the lines inside level j - 1: level j with pre sibling lines before its
\* opener and post sibling lines after its closer; the leaves at the bottom
RECURSIVE NestInner(_, _, _, _, _)
NestInner(kinds, j, pre, post, leaves) ==
    IF j > Len(kinds) THEN leaves
    ELSE Repeat(<<"a">>, pre) \o << OpenerLine(kinds[j]) >>
         \o NestInner(kinds, j + 1, pre, post, leaves)
         \o << CloserLine(kinds[j]) >> \o Repeat(<<"a">>, post)

NestDoc(kinds, pre, post, leaves) ==
    << OpenerLine(kinds[1]) >> \o NestInner(kinds, 2, pre, post, leaves)
    \o << CloserLine(kinds[1]) >>

NestParams ==
    { [family |-> "nest", kinds |-> ks, pre |-> a, post |-> b, leaves |-> ls] :
        ks \in SeqsUpTo(Kinds, MaxDepth), a \in 0..1, b \in 0..1,
        ls \in SeqsUpTo(LeafPool, MaxLeaves) }

NestDocOf(q) == NestDoc(q.kinds, q.pre, q.post, q.leaves)

ScreenIds == { <<"h">>, <<"l">> }

\* [screen <id> / one content line / ]
ScreenBlock(id) ==
    << <<"[", "s", "c", "r", "e", "e", "n", " ">> \o id, <<"a">>, <<"]">> >>

RECURSIVE ScreenBlocks(_)
ScreenBlocks(ids) ==
    IF ids = << >> THEN << >> ELSE ScreenBlock(Head(ids)) \o ScreenBlocks(Tail(ids))

\* [workflow / screens / ]
WorkflowDoc(ids) ==
    << <<"[", "w", "o", "r", "k", "f", "l", "o", "w">> >> \o ScreenBlocks(ids) \o << <<"]">> >>

WorkflowDocs == { WorkflowDoc(ids) : ids \in SeqsUpTo(ScreenIds, MaxScreens) }

FieldLines == Concats(FieldTokens, MaxFieldTokens)

ButtonLines == Concats(ButtonTokens, MaxButtonTokens)

\* the documents that are not built by NestDoc
Docs ==
    SeqsUpTo(LinePool, MaxLines) \cup SeqsUpTo(TablePool, MaxTableLines)
    \cup WorkflowDocs
    \cup { << l >> : l \in FieldLines \cup ButtonLines }

NoShape == [family |-> "none"]

\* no second call of parse is under way
NoCall == [pc |-> "none"]

NoRender == [pc |-> "none"]

\* the field forms "label marker" and the leaf each stands for
FieldForms ==
    << [label |-> <<"a">>, marker |-> <<"_", "_", "_">>,
        node |-> [type |-> "input", label |-> <<"a">>, inputType |-> "text"]],
       [label |-> <<"b">>, marker |-> <<"_", "_", "*">>,
        node |-> [type |-> "input", label |-> <<"b">>, inputType |-> "password"]],
       [label |-> <<"c">>, marker |-> <<"|", "_", "_", "_", "|">>,
        node |-> [type |-> "textarea", label |-> <<"c">>]],
       [label |-> <<"d">>, marker |-> <<"_", "_", ">">>,
        node |-> [type |-> "dropdown", label |-> <<"d">>]],
       [label |-> <<"e", " ", "e">>, marker |-> <<"_", "_", ">", " ", "[", "x", ",", " ", "y", "]">>,
        node |-> [type |-> "dropdown", label |-> <<"e", " ", "e">>,
                  options |-> << <<"x">>, <<"y">> >>]],
       [label |-> <<"f">>, marker |-> <<"_", "_", "[", "]">>,
        node |-> [type |-> "checkbox", label |-> <<"f">>]] >>

\* a line of fields: forms[1] forms[2] ..., sep spaces between two fields
RECURSIVE FieldLine(_, _)
FieldLine(forms, sep) ==
    IF forms = << >> THEN << >>
    ELSE FieldForms[Head(forms)].label \o <<" ">> \o FieldForms[Head(forms)].marker
         \o (IF Len(forms) > 1 THEN Repeat(" ", sep) ELSE << >>)
         \o FieldLine(Tail(forms), sep)

FieldParams ==
    { [family |-> "fields", forms |-> fs, sep |-> n] :
        fs \in SeqsUpTo(1..Len(FieldForms), MaxFields), n \in 0..1 }

ShapeDoc(q) ==
    IF q.family = "nest" THEN NestDocOf(q) ELSE << FieldLine(q.forms, q.sep) >>

Texts == SeqsUpTo(TextAlphabet, MaxText)

(***************************************************************************)
(* Specifications                                                          *)
(***************************************************************************)
MaxRichTokens == 2

MaxBlockLines == 3

\* pieces of the single lines given to the classifier: header mark, fields, radio group, dropdown with options, image, buttons, blank, text, table cell, bracket
RichTokens ==
    { <<"#", " ">>,
      <<"a", " ", "_", "_", "_">>,
      <<"b", " ", "_", "_", "*">>,
      <<"e", " ", "|", "_", "_", "_", "|">>,
      <<"f", " ", "_", "_", "[", "]">>,
      <<"g", " ", "_", "_", ">">>,
      <<"c", " ", "_", "_", "(", ")", " ", "[", "x", "]">>,
      <<"d", " ", "_", "_", ">", " ", "[", "x", "]">>,
      <<"!", "[", "a", "]", "(", "u", ")">>,
      <<"[", "(", "a", ")", "]">>,
      <<"[", "b", "]">>,
      <<" ">>,
      <<"a">>,
      <<"|", " ", "h", " ", "|">>,
      <<"[">> }

RichLines == Concats(RichTokens, MaxRichTokens)

\* lines of the block documents: openers that hold a closing bracket, a button, div openers, closers, a table header, an indented closer
BlockPool ==
    { <<"[", "-", "-", " ", "a", "]">>,
      <<"[", "g", "r", "i", "d", " ", "c", "]">>,
      <<"[", "a", "]">>,
      <<"[">>,
      <<"[", " ", "x">>,
      <<"]">>,
      <<"-", "-", "]">>,
      <<"|", " ", "h", " ", "|">>,
      <<" ", "]">> }

\* documents of their own: radio groups with blank options, lines of "#"
\* with and without a header after them, a header inside a div, lines
\* with one "|", card openers that end with "--]"
EdgeDocs ==
    { << <<"c", " ", "_", "_", "(", ")", " ", "[", ",", "]">> >>,
      << <<"c", " ", "_", "_", "(", ")", " ", "[", " ", "x", ",", ",", "y", "]">> >>,
      << <<"#">> >>,
      << <<"#", "a">> >>,
      << <<"#", "#", "#", "#", "#", "#", " ", "a">> >>,
      << <<"#", "#", "#", "#", "#", "#", "#", " ", "a">> >>,
      << <<"#", "#", " ", "*", "a", "*">> >>,
      << <<"[">>, <<"#", "#", "#", " ", "a">>, <<"]">> >>,
      << <<"|">> >>,
      << <<"|", " ", "a">> >>,
      << <<"|", " ", "a">>, <<"b">> >>,
      << <<"[", "-", "-", " ", "a", " ", "-", "-", "]">>, <<"b">> >>,
      << <<"[", "-", "-", " ", "a", " ", "-", "-", "]">>, <<"b">>, <<"-", "-", "]">>, <<"a">> >>,
      << <<"[", "g", "r", "i", "d", " ", "c">>, <<"[", "-", "-", " ", "a", " ", "-", "-", "]">>, <<"[", "-", "-", " ", "b", " ", "-", "-", "]">>, <<"]">> >> }

\* the documents of the specification SpecLines
LineDocs ==
    { << l >> : l \in RichLines } \cup SeqsUpTo(BlockPool, MaxBlockLines) \cup EdgeDocs

\* new MarkdownParser(options).parse(markdown), lines 6-18
\* shape records how a nested document or a line of fields was built
\* (NoShape for the other documents)
Init ==
    /\ shape \in NestParams \cup FieldParams \cup {NoShape}
    /\ lines \in IF shape = NoShape THEN Docs ELSE {ShapeDoc(shape)}
    /\ opts \in [strict : BOOLEAN, preserveWhitespace : BOOLEAN]
    /\ pc = "parse"
    /\ stack = << [fn |-> "parse", i |-> 0, children |-> << >>] >>
    /\ errors = << >>
    /\ threw = FALSE
    /\ nodeStart = << >>
    /\ eofClosed = -1
    /\ text = << >>
    /\ position = 0
    /\ inline = << >>
    /\ parked = NoCall
    /\ render = NoRender

Next ==
    \/ ParseBlank
    \/ ParseTable
    \/ ParseOpen
    \/ ParseLeaf
    \/ ParseDone
    \/ CardClose
    \/ CardOpen
    \/ CardLeaf
    \/ CardEof
    \/ ContainerClose
    \/ ContainerOpen
    \/ ContainerLeaf
    \/ ContainerEof

Spec == Init /\ [][Next]_vars

\* parseInlineEmphasis(text), lines 473-475
InitEmphasis ==
    /\ text \in Texts
    /\ position = 0
    /\ inline = << >>
    /\ parked = NoCall
    /\ render = NoRender
    /\ pc = "emphasis"
    /\ lines = << << >> >>
    /\ shape = NoShape
    /\ opts = [strict |-> FALSE, preserveWhitespace |-> FALSE]
    /\ stack = << [fn |-> "parse", i |-> 0, children |-> << >>] >>
    /\ errors = << >>
    /\ threw = FALSE
    /\ nodeStart = << >>
    /\ eofClosed = -1

NextEmphasis ==
    \/ EmphasisIter
    \/ EmphasisDone

SpecEmphasis == InitEmphasis /\ [][NextEmphasis]_vars

\* the loop is sequential code: an iteration that is due is run
SpecEmphasisRun == SpecEmphasis /\ WF_vars(NextEmphasis)

\* new MarkdownParser(options).parse(markdown) on a single rich line or a
\* short block document
InitLines ==
    /\ shape = NoShape
    /\ lines \in LineDocs
    /\ opts \in [strict : BOOLEAN, preserveWhitespace : BOOLEAN]
    /\ pc = "parse"
    /\ stack = << [fn |-> "parse", i |-> 0, children |-> << >>] >>
    /\ errors = << >>
    /\ threw = FALSE
    /\ nodeStart = << >>
    /\ eofClosed = -1
    /\ text = << >>
    /\ position = 0
    /\ inline = << >>
    /\ parked = NoCall
    /\ render = NoRender

SpecLines == InitLines /\ [][Next]_vars

MaxCallLines == 2

\* lines of the inputs of the first call: text, openers, closers, a table header, blank
CallPool ==
    { <<"a">>,
      <<"[">>,
      <<"]">>,
      <<"[", "-", "-", " ", "a">>,
      <<"-", "-", "]">>,
      <<"|", " ", "h", " ", "|">>,
      << >> }

CallDocs == SeqsUpTo(CallPool, MaxCallLines)

\* the inputs of the second call: a div around a button, a table before an open card
PartnerDocs ==
    { << <<"[">>, <<"[", "(", "a", ")", "]">>, <<"]">> >>,
      << <<"|", " ", "h", " ", "|">>, <<"[", "-", "-", " ", "a">>, <<"b", " ", "_", "_", "_">> >> }

\* two calls parse(d1) and parse(d2) on one new MarkdownParser(options)
InitCalls ==
    /\ shape = NoShape
    /\ lines \in CallDocs
    /\ opts \in [strict : BOOLEAN, preserveWhitespace : BOOLEAN]
    /\ pc = "parse"
    /\ stack = << [fn |-> "parse", i |-> 0, children |-> << >>] >>
    /\ errors = << >>
    /\ threw = FALSE
    /\ nodeStart = << >>
    /\ eofClosed = -1
    /\ text = << >>
    /\ position = 0
    /\ inline = << >>
    /\ parked \in { [lines |-> d, shape |-> NoShape, pc |-> "parse",
                     stack |-> << [fn |-> "parse", i |-> 0, children |-> << >>] >>,
                     errors |-> << >>, threw |-> FALSE, nodeStart |-> << >>,
                     eofClosed |-> -1, mid |-> FALSE, options |-> opts] : d \in PartnerDocs }
    /\ render = NoRender

NextCalls ==
    \/ Next
    \/ Switch

SpecCalls == InitCalls /\ [][NextCalls]_vars

MaxRendered == 3

\* the workflow nodes given to the generator: screens with ids, and an
\* initialScreen that names a screen, names none, or is missing
WorkflowNodes ==
    { [type |-> "workflow", children |-> c] : c \in
          { [k \in 1..Len(ids) |-> [type |-> "screen", id |-> ids[k]]] :
                ids \in SeqsUpTo(ScreenIds, MaxRendered) } }
    \cup
    { [type |-> "workflow", initialScreen |-> i, children |-> c] :
          i \in ScreenIds \cup { <<"x">> },
          c \in { [k \in 1..Len(ids) |-> [type |-> "screen", id |-> ids[k]]] :
                    ids \in SeqsUpTo(ScreenIds, MaxRendered) } }

\* new HtmlGenerator().generate([node]) for a workflow node
InitRender ==
    /\ render \in { [pc |-> "map", node |-> n, idx |-> 0, screens |-> << >>] : n \in WorkflowNodes }
    /\ pc = "render"
    /\ lines = << << >> >>
    /\ shape = NoShape
    /\ opts = [strict |-> FALSE, preserveWhitespace |-> FALSE]
    /\ stack = << [fn |-> "parse", i |-> 0, children |-> << >>] >>
    /\ errors = << >>
    /\ threw = FALSE
    /\ nodeStart = << >>
    /\ eofClosed = -1
    /\ text = << >>
    /\ position = 0
    /\ inline = << >>
    /\ parked = NoCall

NextRender ==
    \/ RenderScreenIter
    \/ RenderJoin

SpecRender == InitRender /\ [][NextRender]_vars

\* the ParseResult: nodes, and errors (undefined when empty)
nodes == stack[1].children

(***************************************************************************)
(* Tree helpers used by the properties                                     *)
(***************************************************************************)
IsBlock(n) == n.type \in {"card", "grid", "div"}

Last(s) == s[Len(s)]

\* the line cursor i of the call that is running
Cursor == Top.i

\* some branch of the loop that is running applies
CanStep ==
    \/ ParseBlankGuard \/ ParseTableGuard \/ ParseOpenGuard \/ ParseLeafGuard \/ ParseDoneGuard
    \/ \E fn \in {"parseCard", "parseContainer"} :
          FrameCloseGuard(fn) \/ FrameOpenGuard(fn) \/ FrameLeafGuard(fn) \/ FrameEofGuard(fn)

(***************************************************************************)
(* Properties                                                              *)
(***************************************************************************)
\* parse has not thrown, its cursor is in bounds, and it has returned or has
\* a step to take
Sound ==
    /\ ~threw /\ pc \in {"parse", "done"}
    /\ Cursor <= 2 * Len(lines)
    /\ pc = "parse" => CanStep

\* C1: for every input text and every combination of strict and
\* preserveWhitespace, parse terminates and returns its node list; it never
\* throws (no run reaches the state "threw", every run reaches "done").
\* Termination is stated by its proof: the cursor of the running frame grows
\* on every step that does not return the result, it never passes twice the
\* number of lines, and a running parse always has a step to take.
C1_ParseTotal ==
    /\ Sound
    /\ [][Sound' /\ (pc' = "done" \/ Cursor' > Cursor)]_vars

C1_Witness ==
    /\ pc = "done"
    /\ opts.strict /\ opts.preserveWhitespace
    /\ Len(lines) >= 3
    /\ Len(nodes) >= 2
    /\ \E k \in 1..Len(nodes) : IsBlock(nodes[k]) /\ Len(nodes[k].children) >= 1

\* C2: d nested card/grid/div openers closed by their d closers in reverse
\* order around leaf lines parse to one top-level container with exactly d
\* container levels above the leaves, and every container has as many
\* children as its level has direct child lines and openers.
RECURSIVE LevelOK(_, _, _)
LevelOK(node, j, q) ==
    /\ node.type = q.kinds[j]
    /\ IF j < Len(q.kinds)
       THEN /\ Len(node.children) = q.pre + 1 + q.post
            /\ \A k \in 1..Len(node.children) : IsBlock(node.children[k]) <=> k = q.pre + 1
            /\ LevelOK(node.children[q.pre + 1], j + 1, q)
       ELSE /\ Len(node.children) = Len(q.leaves)
            /\ \A k \in 1..Len(node.children) : ~IsBlock(node.children[k])

C2_NestingRoundTrip ==
    (pc = "done" /\ shape.family = "nest") => (Len(nodes) = 1 /\ LevelOK(nodes[1], 1, shape))

C2_Witness ==
    /\ pc = "done"
    /\ shape.family = "nest"
    /\ shape.kinds = <<"div", "card", "grid">>
    /\ shape.pre = 1 /\ shape.post = 1 /\ Len(shape.leaves) = 1
    /\ Len(nodes) = 1
    /\ Len(nodes[1].children) = 3
    /\ nodes[1].children[2].children[2].type = "grid"
    /\ Len(nodes[1].children[2].children[2].children) = 1

\* number of block-level nodes below a node
RECURSIVE Weight(_)
RECURSIVE WeightOfAll(_)
Weight(node) == IF IsBlock(node) THEN WeightOfAll(node.children) ELSE 0

WeightOfAll(ns) == IF ns = << >> THEN 0 ELSE 1 + Weight(Head(ns)) + WeightOfAll(Tail(ns))

\* the lines after line k (0-based) that are not blank / hold no closer token
NonBlankAfter(k) == { j \in (k + 1)..(Len(lines) - 1) : LineAt(j) # << >> }

NoCloserAfter(k) ==
    \A j \in (k + 1)..(Len(lines) - 1) : LineAt(j) \notin {<<"-", "-", "]">>, <<"]">>}

\* C3: a top-level card, grid or div whose loop runs out of lines (no
\* matching closer before end of input) makes parse neither fail nor record
\* a diagnostic; it is the last top-level node, no later line starts a node
\* of its own, and when no closer token follows the opener at all every
\* non-blank remaining line is a node inside it.
C3_UnterminatedContainer ==
    (pc = "done" /\ eofClosed >= 0) =>
        /\ ~threw
        /\ errors = << >>
        /\ Len(nodes) >= 1
        /\ Last(nodes).type = Opener(LineAt(eofClosed)).type
        /\ Last(nodeStart) = eofClosed
        /\ NoCloserAfter(eofClosed) =>
               Weight(Last(nodes)) = Cardinality(NonBlankAfter(eofClosed))

C3_Witness ==
    /\ pc = "done"
    /\ eofClosed = 0
    /\ Len(lines) >= 3
    /\ NoCloserAfter(eofClosed)
    /\ Len(nodes) = 1
    /\ Weight(Last(nodes)) = 2
    /\ IsBlock(Last(nodes).children[1])

\* the field marker tokens (at the start of the line or after whitespace),
\* counted left to right without overlap
BareMarkerLen(s, k) ==
    IF k > 1 /\ ~IsWs(s[k - 1]) THEN 0
    ELSE IF MatchAt(s, k, <<"|", "_", "_", "_", "|">>) THEN 5
    ELSE IF MatchAt(s, k, <<"_", "_", "[", "]">>) THEN 4
    ELSE IF \E m \in {<<"_", "_", "_">>, <<"_", "_", "*">>, <<"_", "_", ">">>} : MatchAt(s, k, m) THEN 3
    ELSE 0

RECURSIVE CountMarkers(_, _)
CountMarkers(s, k) ==
    IF k > Len(s) THEN 0
    ELSE IF BareMarkerLen(s, k) > 0 THEN 1 + CountMarkers(s, k + BareMarkerLen(s, k))
    ELSE CountMarkers(s, k + 1)

\* parse of a one-line document handed its line to the Line Classifier
ClassifiedLine ==
    /\ pc = "done" /\ Len(lines) = 1
    /\ LineAt(0) # << >> /\ ~IsTableLine(LineAt(0)) /\ Opener(LineAt(0)).fn = "none"

Segments(l) ==
    { k \in 1..Len(l) :
        /\ l[k] # "|" /\ ~IsWs(l[k])
        /\ \A j \in 1..(k - 1) : (\A m \in j..k : l[m] # "|") => IsWs(l[j]) }

\* line j (0-based) exists, is not blank and contains "|"
IsRowLine(j) == j < Len(lines) /\ LineAt(j) # << >> /\ Includes(LineAt(j), "|")

\* line j (0-based) exists and contains both "-" and "|"
IsSeparatorLine(j) == j < Len(lines) /\ Includes(LineAt(j), "-") /\ Includes(LineAt(j), "|")

\* C5: a table node has as many header cells as its header line has
\* non-blank |-delimited segments, and as many rows as there are consecutive
\* non-blank lines containing | after the header, the one optional separator
\* line directly after the header not counted.
C5_TableShape ==
    pc = "done" =>
        \A k \in 1..Len(nodes) :
            nodes[k].type = "table" =>
                LET h == nodeStart[k]
                    first == IF IsSeparatorLine(h + 1) THEN h + 2 ELSE h + 1
                    r == Len(nodes[k].rows)
                IN /\ Len(nodes[k].headers) = Cardinality(Segments(LineAt(h)))
                   /\ \A j \in first..(first + r - 1) : IsRowLine(j)
                   /\ ~IsRowLine(first + r)

C5_Witness ==
    /\ pc = "done"
    /\ Len(lines) = 3
    /\ Len(nodes) = 1
    /\ nodes[1].type = "table"
    /\ Len(nodes[1].headers) = 2
    /\ IsSeparatorLine(1)
    /\ Len(nodes[1].rows) = 1
    /\ Len(nodes[1].rows[1]) = 2

\* the tokenizer returned for a text of the form _*X*_ with X not empty
Wrapped ==
    /\ pc = "emphasisDone"
    /\ Len(text) >= 5
    /\ StartsWith(text, <<"_", "*">>) /\ EndsWith(text, <<"*", "_">>)

Interior == SubSeq(text, 3, Len(text) - 2)

BoldItalic(X) == [type |-> "bold", children |-> << [type |-> "italic", content |-> X] >>]

\* C6 as stated: for every interior text X, _*X*_ is one bold node whose
\* single child is an italic node with content X.
C6_AsStated == Wrapped => inline = << BoldItalic(Interior) >>

\* C6 (amended): for every non-empty X holding no "*_" from its second
\* character on, _*X*_ is one bold node whose single child is an italic
\* node with content X (the non-greedy interior ends at the first "*_").
C6_BoldItalic ==
    (Wrapped /\ \A k \in 2..(Len(Interior) - 1) : ~MatchAt(Interior, k, <<"*", "_">>))
        => inline = << BoldItalic(Interior) >>

C6_Witness ==
    /\ Wrapped
    /\ Interior = <<"*", "_", "a">>
    /\ inline = << BoldItalic(Interior) >>

\* the button group forms: the source text of a group and the button the
\* navigation syntax stands for
NavTail == <<" ", "-", ">", " ", "t">>

PlainButton(L, variant) == [type |-> "button", content |-> L, variant |-> variant]

NavButton(L, variant, T) ==
    [type |-> "button", content |-> L, variant |-> variant, navigateTo |-> T]

GroupForms ==
    { [src |-> <<"[", "(", "a", ")", "]">>, node |-> PlainButton(<<"a">>, "default")],
      [src |-> <<"[", "b", "]">>, node |-> PlainButton(<<"b">>, "outline")],
      [src |-> <<"[", "(", "a", ")">> \o NavTail \o <<"]">>,
       node |-> NavButton(<<"a">>, "default", <<"t">>)],
      [src |-> <<"[", "b">> \o NavTail \o <<"]">>,
       node |-> NavButton(<<"b">>, "outline", <<"t">>)] }

HasTarget(g) == "navigateTo" \in DOMAIN g.node

\* C7: the line [(L) -> T] parses to the single button {content L, variant
\* default, navigateTo T} and the line [L -> T] to the single button
\* {content L, variant outline, navigateTo T}; the target is not in content.
C7_NavigationButton ==
    pc = "done" =>
        \A g \in GroupForms :
            (HasTarget(g) /\ lines = << g.src >>) => nodes = << g.node >>

\* C8: a line of two or more adjacent button groups, any of which may carry
\* a navigation target, parses to one container whose children are the
\* buttons in source order, navigateTo set exactly on the groups with a target.
C8_MultiButtonNavigation ==
    pc = "done" =>
        \A gs \in SeqsUpTo(GroupForms, MaxButtonTokens) :
            (Len(gs) >= 2 /\ lines = << Flatten([k \in 1..Len(gs) |-> gs[k].src]) >>)
                => nodes = << [type |-> "container",
                               children |-> [k \in 1..Len(gs) |-> gs[k].node]] >>

\* the screen node of the block "[screen <id>" / "a" / "]"
ScreenNode(id) == [type |-> "screen", id |-> id, children |-> << parseLine(<<"a">>) >>]

\* C9: a [workflow block closed by ] parses to a single workflow node whose
\* children are the screen nodes of its [screen <id> blocks in source order,
\* each with the id of its opener and the nodes between opener and closer.
C9_WorkflowScreens ==
    pc = "done" =>
        \A ids \in SeqsUpTo(ScreenIds, MaxScreens) :
            lines = WorkflowDoc(ids) =>
                /\ Len(nodes) = 1
                /\ nodes[1].type = "workflow"
                /\ nodes[1].children = [k \in 1..Len(ids) |-> ScreenNode(ids[k])]

\* C10: a workflow block with at least one screen and no initial-screen
\* directive yields a workflow node whose initialScreen is the id of its
\* first screen.
C10_InitialScreen ==
    pc = "done" =>
        \A ids \in SeqsUpTo(ScreenIds, MaxScreens) :
            (Len(ids) >= 1 /\ lines = WorkflowDoc(ids)) =>
                /\ Len(nodes) = 1
                /\ nodes[1].type = "workflow"
                /\ "initialScreen" \in DOMAIN nodes[1]
                /\ nodes[1].initialScreen = ids[1]

\* the patterns of the Line Classifier in the order the code tests them:
\* which of them the line matches
PatternHits(line) ==
    << headerMatch(line).ok,
       Len(fieldMatches(line)) > 1,
       SuffixMatch(line, <<"_", "_", "*">>).ok,
       SuffixMatch(line, <<"|", "_", "_", "_", "|">>).ok,
       SuffixMatch(line, <<"_", "_", "_">>).ok,
       SuffixMatch(line, <<"_", "_", "[", "]">>).ok,
       SuffixOptionsMatch(line, <<"_", "_", "(", ")">>).ok,
       SuffixOptionsMatch(line, <<"_", "_", ">">>).ok,
       SuffixMatch(line, <<"_", "_", ">">>).ok,
       imageMatch(line).ok,
       Len(multiButtonMatch(line)) > 1,
       defaultButtonMatch(line).ok,
       buttonMatch(line).ok,
       TRUE >>

FirstHit(line) ==
    LET h == PatternHits(line)
    IN CHOOSE k \in 1..14 : h[k] /\ \A j \in 1..(k - 1) : ~h[j]

\* the pattern a node was built by, read off the node alone
KindOf(n) ==
    IF n.type = "header" THEN 1
    ELSE IF n.type = "container"
    THEN (IF n.children[1].type = "button" THEN 11 ELSE 2)
    ELSE IF n.type = "input" THEN (IF n.inputType = "password" THEN 3 ELSE 5)
    ELSE IF n.type = "textarea" THEN 4
    ELSE IF n.type = "checkbox" THEN 6
    ELSE IF n.type = "radiogroup" THEN 7
    ELSE IF n.type = "dropdown" THEN (IF "options" \in DOMAIN n THEN 8 ELSE 9)
    ELSE IF n.type = "image" THEN 10
    ELSE IF n.type = "button" THEN (IF n.variant = "default" THEN 12 ELSE 13)
    ELSE IF n.type = "text" THEN 14
    ELSE 0

\* C12: for every input and for strict true or false, parse returns no
\* errors: the classifier never returns null, the "Unable to parse"
\* diagnostic is never recorded, and a line that matches no pattern becomes
\* a text node.
C12_NoDiagnostics ==
    /\ errors = << >>
    /\ (ClassifiedLine /\ FirstHit(LineAt(0)) = 14)
          => nodes = << [type |-> "text", children |-> parseInlineEmphasis(LineAt(0))] >>

C12_Witness ==
    /\ ClassifiedLine /\ opts.strict
    /\ FirstHit(LineAt(0)) = 14
    /\ Len(LineAt(0)) >= 2
    /\ nodes[1].type = "text"
    /\ errors = << >>

\* no line of the input, as parse reads it, is a table line or a container opener
PlainDoc ==
    \A k \in 0..(Len(lines) - 1) :
        ~IsTableLine(LineAt(k)) /\ Opener(LineAt(k)).fn = "none"

\* the 0-based line indices, in order
LineIndices == [k \in 1..Len(lines) |-> k - 1]

\* the indices of the lines holding a character that is not whitespace
VisibleLines == LET T(k) == Trim(lines[k + 1]) # << >> IN SelectSeq(LineIndices, T)

\* the indices of the lines that are not empty as parse reads them (trimmed
\* unless preserveWhitespace)
ReadLines == LET T(k) == LineAt(k) # << >> IN SelectSeq(LineIndices, T)

\* C13 as stated: without table and opener lines the top-level nodes are, in
\* line order, one per non-blank line, and blank lines give no node.
C13_AsStated ==
    (pc = "done" /\ PlainDoc) => (Len(nodes) = Len(VisibleLines) /\ nodeStart = VisibleLines)

\* C13 (amended): without table and opener lines the top-level nodes are, in
\* line order, the classifier's node of every line that is not empty as
\* parse reads it (trimmed unless preserveWhitespace); empty lines give no
\* node, and under preserveWhitespace a whitespace-only line is not empty.
C13_OneNodePerLine ==
    (pc = "done" /\ PlainDoc) =>
        /\ nodeStart = ReadLines
        /\ Len(nodes) = Len(ReadLines)
        /\ \A k \in 1..Len(nodes) : nodes[k] = parseLine(LineAt(nodeStart[k]))

C13_Witness ==
    /\ pc = "done" /\ PlainDoc
    /\ Len(lines) = 3
    /\ lines[2] = << >>
    /\ nodeStart = <<0, 2>>
    /\ Len(nodes) = 2

\* C14: the Line Classifier tests header, multi-field, password, textarea,
\* text input, checkbox, radio group, dropdown with options, dropdown, image,
\* multi-button, default button, outline button, text in this order and the
\* first match wins: a line gets the node of the earliest pattern it matches
\* (a row of two or more bracket groups is a container, never one outline
\* button; [(label)] is a default button with content label).
C14_FirstMatchWins ==
    ClassifiedLine =>
        LET line == LineAt(0)
        IN /\ Len(nodes) = 1
           /\ KindOf(nodes[1]) = FirstHit(line)
           /\ (FirstHit(line) = 11 /\ buttonMatch(line).ok) =>
                 (nodes[1].type = "container" /\ Len(nodes[1].children) >= 2)
           /\ (FirstHit(line) = 12 /\ buttonMatch(line).ok) =>
                 (nodes[1].variant = "default"
                  /\ nodes[1].content = defaultButtonMatch(line).content)

\* a row of two button groups, which the outline-button pattern matches too
C14_Witness ==
    /\ ClassifiedLine
    /\ LineAt(0) = <<"[", "(", "a", ")", "]", "[", "b", "]">>
    /\ PatternHits(LineAt(0))[11] /\ PatternHits(LineAt(0))[13]
    /\ nodes = << [type |-> "container",
                   children |-> << PlainButton(<<"a">>, "default"),
                                   PlainButton(<<"b">>, "outline") >>] >>

\* the running loop (of parse, parseCard or parseContainer) reads a line
\* that begins with "["
ReadsBracketLine ==
    /\ pc = "parse"
    /\ IF Len(stack) = 1 THEN ParseLoopCond(Top.i) ELSE FrameLoopCond(Top)
    /\ InRange(Top.i)
    /\ StartsWith(CurLine, <<"[">>)

\* the step opens a container of the given type at the line read
Opens(type) ==
    /\ Len(stack') = Len(stack) + 1
    /\ stack'[Len(stack')].type = type
    /\ stack'[Len(stack')].startIndex = Top.i
    /\ SubSeq(stack', 1, Len(stack)) = stack

\* the step hands the line read to the Line Classifier and keeps its node
Classifies ==
    /\ Len(stack') = Len(stack)
    /\ stack'[Len(stack)].children = Append(Top.children, parseLine(CurLine))
    /\ stack'[Len(stack)].i = Top.i + 1

\* C15 as stated: at top level and inside any card, grid or div, a line
\* beginning with "[" that holds "]" goes to the Line Classifier; one without
\* "]" opens a card, a grid, or else a div.
C15_AsStated ==
    [][ReadsBracketLine =>
          IF Includes(CurLine, "]") THEN Classifies
          ELSE IF cardMatch(CurLine).ok THEN Opens("card")
          ELSE IF gridMatch(CurLine).ok THEN Opens("grid")
          ELSE Opens("div")]_vars

\* C15 (amended): at top level and inside any card, grid or div, a line
\* beginning with "[--" opens a card and a line beginning with "[grid" and
\* whitespace opens a grid, whether or not it holds "]"; any other line
\* beginning with "[" goes to the Line Classifier when it holds "]" and
\* opens a div when it holds none.
C15_OpenerDispatch ==
    [][ReadsBracketLine =>
          IF cardMatch(CurLine).ok THEN Opens("card")
          ELSE IF gridMatch(CurLine).ok THEN Opens("grid")
          ELSE IF Includes(CurLine, "]") THEN Classifies
          ELSE Opens("div")]_vars

\* a button line inside a div whose opener carries a class, after a card
\* opened by a line that holds "]"
C15_Witness ==
    /\ pc = "done"
    /\ lines = << <<"[", "-", "-", " ", "a", "]">>, <<"[", " ", "x">>, <<"[", "a", "]">> >>
    /\ Len(nodes) = 1
    /\ nodes[1].type = "card"
    /\ nodes[1].children = << [type |-> "div",
                               children |-> << PlainButton(<<"a">>, "outline") >>,
                               className |-> <<"x">>] >>

\* C16: a table block placed inside a card, grid or div parses to a table
\* node among that container's children, with the headers and rows it would
\* have at top level (here: opener, table header line, closer).
C16_TableInContainer ==
    (/\ pc = "done" /\ Len(lines) = 3
     /\ Opener(LineAt(0)).fn # "none"
     /\ IsTableLine(LineAt(1))
     /\ LineAt(2) = Closer(Opener(LineAt(0)).fn))
        => /\ Len(nodes) = 1
           /\ nodes[1].children =
                 << [type |-> "table", headers |-> SplitCells(LineAt(1), "|"), rows |-> << >>] >>

\* the types of the nodes a container may hold: form-field leaves and buttons
FlatTypes == {"input", "textarea", "dropdown", "checkbox", "button"}

\* every container at or below node n holds only field leaves and buttons
RECURSIVE FlatBelow(_)
FlatBelow(n) ==
    IF n.type = "container"
    THEN \A k \in 1..Len(n.children) : n.children[k].type \in FlatTypes
    ELSE IF IsBlock(n)
    THEN \A k \in 1..Len(n.children) : FlatBelow(n.children[k])
    ELSE TRUE

\* C17: in every AST parse returns, every container node is flat: none of
\* its children is a container, card, grid or div; they are field leaves or
\* buttons only.
C17_ContainersFlat ==
    pc = "done" => \A k \in 1..Len(nodes) : FlatBelow(nodes[k])

C17_Witness ==
    /\ ClassifiedLine
    /\ nodes[1].type = "container"
    /\ Len(nodes[1].children) = 3
    /\ nodes[1].children[1].type = "button"
    /\ nodes[1].children[3].type = "button"
    /\ FlatBelow(nodes[1])

\* parse with preserveWhitespace true returned for a one-line input whose
\* line is not blank and has leading or trailing whitespace
PaddedLine ==
    /\ pc = "done" /\ opts.preserveWhitespace
    /\ Len(lines) = 1
    /\ Trim(lines[1]) # << >>
    /\ (IsWs(lines[1][1]) \/ IsWs(lines[1][Len(lines[1])]))

\* parse with preserveWhitespace true returned for an opener line followed
\* by its closer with whitespace around it
PaddedCloser ==
    /\ pc = "done" /\ opts.preserveWhitespace
    /\ Len(lines) = 2
    /\ Opener(lines[1]).fn # "none"
    /\ Trim(lines[2]) = Closer(Opener(lines[1]).fn)
    /\ lines[2] # Trim(lines[2])

PaddedKinds(lead, trail) ==
    IF lead /\ trail THEN {2, 14}
    ELSE IF lead THEN {2, 3, 4, 5, 6, 7, 8, 9, 14}
    ELSE {1, 2, 11, 14}

TitleAt(i) == From(LineAt(i), SkipWs(LineAt(i), 4))

\* the step returns from parseCard
CardReturns == Len(stack') = Len(stack) - 1 /\ Top.type = "card"

\* C20: a card node has titleChildren exactly when its opener line carries
\* non-empty title text after "[--"; titleChildren is then the non-empty
\* emphasis tokenization of that title, and is undefined without a title.
C20_CardTitle ==
    [][CardReturns =>
          LET node == Last(stack'[Len(stack')].children)
              title == TitleAt(Top.startIndex)
          IN /\ node.type = "card"
             /\ IF title # << >>
                THEN /\ "titleChildren" \in DOMAIN node
                     /\ node.titleChildren = parseInlineEmphasis(title)
                     /\ node.titleChildren # << >>
                ELSE "titleChildren" \notin DOMAIN node]_vars

\* a titled card holding a titled card
C20_Witness ==
    /\ pc = "done" /\ shape.family = "nest"
    /\ shape.kinds = <<"card", "card">>
    /\ nodes[1].titleChildren = << [type |-> "text", content |-> <<"a">>] >>
    /\ nodes[1].children[shape.pre + 1].titleChildren = nodes[1].titleChildren

\* spaces added around a line, a before and b after
PadLine(l, a, b) == Repeat(" ", a) \o l \o Repeat(" ", b)

\* the input with every line padded, or only line k (0 for every line)
PadDoc(ls, k, a, b) ==
    [j \in 1..Len(ls) |-> IF k = 0 \/ j = k THEN PadLine(ls[j], a, b) ELSE ls[j]]

\* the paddings tried: leading, trailing, both
Paddings == { <<1, 0>>, <<0, 1>>, <<1, 1>> }

\* C11: with preserveWhitespace false, adding leading or trailing spaces to
\* any line never changes its classification: parse of the padded input
\* returns the same nodes as parse of the unpadded input.
C11_PaddingIgnored ==
    (pc = "done" /\ ~opts.preserveWhitespace) =>
        \A k \in 0..Len(lines) : \A ab \in Paddings :
            ParseNodes(PadDoc(lines, k, ab[1], ab[2]), opts) = nodes

\* a call that has returned returned what parse returns for its input alone
AsAlone ==
    /\ pc = "done" => (nodes = ParseNodes(lines, opts) /\ errors = << >>)
    /\ parked.pc = "done" =>
          (parked.stack[1].children = ParseNodes(parked.lines, opts) /\ parked.errors = << >>)

\* C19: parse keeps no mutable state across calls: the options are never
\* written after construction and the cursors are local, so under any
\* interleaving of two parse calls on one instance each call returns what
\* it returns when it runs alone.
C19_CallsIndependent ==
    /\ opts = parked.options
    /\ AsAlone

\* both calls have returned, and one was suspended between two iterations
C19_Witness ==
    /\ pc = "done" /\ parked.pc = "done"
    /\ parked.mid
    /\ Len(lines) = 2
    /\ Len(nodes) >= 1 /\ Len(parked.stack[1].children) >= 1
    /\ nodes = ParseNodes(lines, opts)

\* the padded closer of a div is its closer when lines are trimmed
C11_Witness ==
    /\ pc = "done" /\ ~opts.preserveWhitespace
    /\ lines = << <<"[">>, <<"[", "a", "]">>, <<" ", "]">> >>
    /\ eofClosed = -1
    /\ nodes = ParseNodes(<< <<"[">>, <<"[", "a", "]">>, <<"]">> >>, opts)
    /\ nodes[1].children = << PlainButton(<<"a">>, "outline") >>

\* C21: every radiogroup node returned by parse has a non-empty options
\* list: the bracketed list split on commas, each entry trimmed, empty
\* entries discarded, at least one option left.
C21_RadioOptions ==
    (ClassifiedLine /\ nodes[1].type = "radiogroup") =>
        /\ nodes[1].options = OptionList(SuffixOptionsMatch(LineAt(0), <<"_", "_", "(", ")">>).options)
        /\ nodes[1].options # << >>

\* the screen rendered at position k (from 1) is marked active
Active(k) ==
    /\ "proto-screen-active" \in { render.screens[k].class[j] : j \in 1..Len(render.screens[k].class) }
    /\ "proto-screen-initial" \in { render.screens[k].badges[j] : j \in 1..Len(render.screens[k].badges) }

\* C22: when HtmlGenerator renders a workflow node, the screen whose id
\* equals the workflow's initialScreen is marked active (class
\* proto-screen-active and the Initial badge), and no other screen is.
C22_InitialScreenActive ==
    (render.pc = "done" /\ "initialScreen" \in DOMAIN render.node) =>
        \A k \in 1..Len(render.screens) :
            Active(k) <=> render.node.children[k].id = render.node.initialScreen

\* C23 as stated: a top-level line is a table header only if it begins
\* with "|" and holds at least one more "|"; a line with a single "|" goes
\* to the Line Classifier.
C23_AsStated ==
    pc = "done" =>
        \A k \in 1..Len(nodes) :
            nodes[k].type = "table" <=>
                (StartsWith(LineAt(nodeStart[k]), <<"|">>) /\ PipeCount(LineAt(nodeStart[k])) >= 2)

\* C23 (amended): a top-level line that is not empty as parse reads it is a
\* table header exactly when its first character that is not whitespace is
\* "|"; no second "|" is needed: "| a" is a table with the one header a and
\* "|" alone a table without headers.  Every other line goes on to the
\* opener tests and the Line Classifier.
C23_TableHeaderTest ==
    pc = "done" =>
        \A k \in 1..Len(nodes) :
            LET line == LineAt(nodeStart[k])
            IN /\ nodes[k].type = "table" <=> StartsWith(Trim(line), <<"|">>)
               /\ nodes[k].type = "table" => nodes[k].headers = SplitCells(line, "|")

\* a line with one "|" is the header of a table that ends at the next line
C23_Witness ==
    /\ pc = "done"
    /\ lines = << <<"|", " ", "a">>, <<"b">> >>
    /\ nodes = << [type |-> "table", headers |-> << <<"a">> >>, rows |-> << >>],
                  textFallback(<<"b">>) >>

\* the first line the rows loop of the table node k does not take: the line
\* after the header, the optional separator and the rows
StopLine(k) ==
    LET h == nodeStart[k]
    IN (IF IsSeparatorLine(h + 1) THEN h + 2 ELSE h + 1) + Len(nodes[k].rows)

\* the lines from j on that are not empty as parse reads them
ReadFrom(j) == { m \in j..(Len(lines) - 1) : LineAt(m) # << >> }

\* C24: the rows of a table end at the first line that is blank or holds no
\* "|"; that line is not taken by the table: the outer loop reads it next,
\* so the first line from there on that is not blank starts the next
\* top-level node (the classifier's node when the line is a leaf line), and
\* no line after a table is lost.
C24_TableStops ==
    pc = "done" =>
        \A k \in 1..Len(nodes) :
            nodes[k].type = "table" =>
                LET stop == StopLine(k)
                IN /\ stop <= Len(lines)
                   /\ stop < Len(lines) => (LineAt(stop) = << >> \/ ~Includes(LineAt(stop), "|"))
                   /\ IF ReadFrom(stop) = { }
                      THEN k = Len(nodes)
                      ELSE /\ k < Len(nodes)
                           /\ nodeStart[k + 1] = CHOOSE m \in ReadFrom(stop) :
                                                     \A n \in ReadFrom(stop) : m <= n
                           /\ (stop \in ReadFrom(stop) /\ Opener(LineAt(stop)).fn = "none")
                                 => nodes[k + 1] = parseLine(LineAt(stop))

\* a table of one row ends at a text line, which becomes a text node
C24_Witness ==
    /\ pc = "done"
    /\ Len(lines) = 3
    /\ Len(nodes) = 2
    /\ nodes[1].type = "table" /\ Len(nodes[1].rows) = 1
    /\ Len(nodes[1].headers) = 2 /\ Len(nodes[1].rows[1]) = 2
    /\ StopLine(1) = 2
    /\ nodes[2] = textFallback(<<"a">>)

\* the loop of parseCard or parseContainer reads a line
ReadsInFrame == pc = "parse" /\ Len(stack) > 1 /\ FrameLoopCond(Top) /\ InRange(Top.i)

\* the closer token of the kind of the running container, and the other one
OwnCloser == IF Top.type = "card" THEN <<"-", "-", "]">> ELSE <<"]">>

OtherCloser == IF Top.type = "card" THEN <<"]">> ELSE <<"-", "-", "]">>

\* the step returns from the running container call
FrameReturns == pc = "parse" /\ Len(stack) > 1 /\ Len(stack') = Len(stack) - 1

\* the step ends the running container at the line read: the caller gets
\* the container with the children gathered so far and goes on after the line
Closes ==
    /\ FrameReturns
    /\ LET caller == stack'[Len(stack')]
           node == Last(caller.children)
       IN /\ Len(caller.children) = Len(stack[Len(stack) - 1].children) + 1
          /\ node.type = Top.type
          /\ node.children = Top.children
          /\ caller.i = Top.i + 1

\* C25: closers are kind-specific and give no node: a card ends only at a
\* line equal to "--]", a grid or div only at a line equal to "]" (or at the
\* end of input); the other kind's closer directly inside a container does
\* not end it and is classified as an ordinary line.
C25_ClosersByKind ==
    [][/\ ReadsInFrame =>
             /\ CurLine = OwnCloser => Closes
             /\ CurLine = OtherCloser => Classifies
       /\ (FrameReturns /\ FrameLoopCond(Top)) => CurLine = OwnCloser]_vars

\* a card closer inside a div is a text child of the div, which "]" then ends
C25_Witness ==
    /\ pc = "done"
    /\ lines = << <<"[">>, <<"-", "-", "]">>, <<"]">> >>
    /\ eofClosed = -1
    /\ nodes = << [type |-> "div", children |-> << textFallback(<<"-", "-", "]">>) >>] >>

\* one of the three emphasis forms starts at index p (from 1) of the text:
\* _*X*_, *X* or _X_ with X not empty
StartsForm(p) ==
    \/ MatchAt(text, p, <<"_", "*">>) /\ \E k \in (p + 3)..Len(text) : MatchAt(text, k, <<"*", "_">>)
    \/ text[p] = "*" /\ \E k \in (p + 2)..Len(text) : text[k] = "*"
    \/ text[p] = "_" /\ \E k \in (p + 2)..Len(text) : text[k] = "_"

\* the loop is at a "*" or "_" that starts no emphasis form
AtLoneMarker ==
    /\ pc = "emphasis" /\ position < Len(text)
    /\ text[position + 1] \in {"*", "_"}
    /\ ~StartsForm(position + 1)

\* C26: parseInlineEmphasis terminates on every text: every iteration moves
\* the scan position forward by at least one character and never past the
\* end, and a "*" or "_" at the position that starts none of the three
\* emphasis forms is pushed as a text leaf of that one character, the
\* position moving by exactly one.
C26_TokenizerTerminates ==
    /\ <>(pc = "emphasisDone")
    /\ [][/\ position' <= Len(text)
          /\ (pc' = "emphasisDone" \/ position' > position)
          /\ AtLoneMarker =>
                (/\ inline' = Append(inline, [type |-> "text", content |-> << text[position + 1] >>])
                 /\ position' = position + 1)]_vars

\* "_*a" holds two markers that start nothing: three text leaves
C26_Witness ==
    /\ pc = "emphasisDone"
    /\ text = <<"_", "*", "a">>
    /\ inline = << [type |-> "text", content |-> <<"_">>],
                   [type |-> "text", content |-> <<"*">>],
                   [type |-> "text", content |-> <<"a">>] >>

\* the source form of an inline node: content for text, *content* for bold,
\* _content_ for italic, _*content*_ for bold wrapping italic
SourceForm(n) ==
    IF n.type = "text" THEN n.content
    ELSE IF n.type = "italic" THEN <<"_">> \o n.content \o <<"_">>
    ELSE IF "children" \in DOMAIN n
    THEN <<"_", "*">> \o n.children[1].content \o <<"*", "_">>
    ELSE <<"*">> \o n.content \o <<"*">>

\* the content of an inline node
ContentOf(n) == IF "children" \in DOMAIN n THEN n.children[1].content ELSE n.content

\* C28: the Inline Emphasis Tokenizer is lossless and order-preserving: the
\* source forms of the nodes pushed so far, concatenated in order, are the
\* text up to the scan position, so at the return they reproduce the input
\* exactly; no node has empty content.
C28_TokenizerLossless ==
    /\ Flatten([k \in 1..Len(inline) |-> SourceForm(inline[k])]) = SubSeq(text, 1, position)
    /\ \A k \in 1..Len(inline) : ContentOf(inline[k]) # << >>
    /\ pc = "emphasisDone" => position = Len(text)

\* text, bold and italic in one line
C28_Witness ==
    /\ pc = "emphasisDone"
    /\ text = <<"a", "*", "a", "*", "_", "a", "_">>
    /\ inline = << [type |-> "text", content |-> <<"a">>],
                   [type |-> "bold", content |-> <<"a">>],
                   [type |-> "italic", content |-> <<"a">>] >>

\* the number of "#" a line begins with
Hashes(l) ==
    CHOOSE n \in 0..Len(l) :
        /\ \A k \in 1..n : l[k] = "#"
        /\ n < Len(l) => l[n + 1] # "#"

\* one to six "#", then whitespace, then at least one more character
HeaderShape(l) ==
    /\ Hashes(l) \in 1..6
    /\ Len(l) >= Hashes(l) + 2
    /\ IsWs(l[Hashes(l) + 1])

\* every header at or below node n has a level from 1 to 6 and children
RECURSIVE HeadersBelow(_)
HeadersBelow(n) ==
    IF n.type = "header" THEN n.level \in 1..6 /\ n.children # << >>
    ELSE IF IsBlock(n) THEN \A k \in 1..Len(n.children) : HeadersBelow(n.children[k])
    ELSE TRUE

\* C27: every header node parse returns has a level from 1 to 6, equal to
\* the number of "#" its line begins with, and children that are not empty;
\* a line that begins with seven or more "#", or has no whitespace right
\* after the "#", or no character after that whitespace, is not a header.
C27_HeaderLevels ==
    /\ pc = "done" => \A k \in 1..Len(nodes) : HeadersBelow(nodes[k])
    /\ ClassifiedLine =>
          LET l == LineAt(0)
          IN /\ nodes[1].type = "header" <=> HeaderShape(l)
             /\ nodes[1].type = "header" =>
                   (/\ nodes[1].level = Hashes(l)
                    /\ nodes[1].children =
                          parseInlineEmphasis(From(l, IF SkipWs(l, Hashes(l) + 1) <= Len(l)
                                                      THEN SkipWs(l, Hashes(l) + 1) ELSE Len(l))))

\* six "#" give a header of level 6
C27_Witness ==
    /\ ClassifiedLine
    /\ lines = << <<"#", "#", "#", "#", "#", "#", " ", "a">> >>
    /\ nodes = << [type |-> "header", level |-> 6,
                   children |-> << [type |-> "text", content |-> <<"a">>] >>] >>

\* an iteration of the running loop is due: it reads lines[i] at its cursor
IterDue == pc = "parse" /\ (IF Len(stack) = 1 THEN ParseLoopCond(Top.i) ELSE FrameLoopCond(Top))

\* C29: at every nesting level the line cursor strictly increases on each
\* loop iteration (a nested call starts right after its opener and hands
\* back a larger cursor), and lines[i] is only read with 0 <= i <
\* lines.length, although a container closed by the end of input returns
\* nextIndex = i + 1 > lines.length.
C29_CursorInRange ==
    [][/\ ~threw'
       /\ IterDue => InRange(Top.i)
       /\ pc = "parse" =>
             LET L == Len(stack')
             IN /\ IF L > Len(stack)
                   THEN /\ stack'[L].i = Top.i + 1
                        /\ SubSeq(stack', 1, L - 1) = stack
                   ELSE stack'[L].i > stack[L].i \/ pc' = "done"
                /\ \A k \in 1..L : k <= Len(stack) => stack'[k].i >= stack[k].i]_vars

\* three containers nested and closed by the end of input: every level
\* hands back its cursor plus one, parse ends three past the last line
C29_Witness ==
    /\ pc = "done"
    /\ lines = << <<"[">>, <<"[", "-", "-", " ", "a", "]">>, <<"[", "g", "r", "i", "d", " ", "c", "]">> >>
    /\ eofClosed = 0
    /\ Cursor = Len(lines) + 3
    /\ nodes[1].children[1].children[1].type = "grid"

\* parse returned for an input whose first line begins with "[--" and ends
\* with "--]", followed by leaf lines up to the first line equal to "--]"
\* or to the end
OneLineCard ==
    /\ pc = "done"
    /\ Len(LineAt(0)) >= 6
    /\ StartsWith(LineAt(0), <<"[", "-", "-">>) /\ EndsWith(LineAt(0), <<"-", "-", "]">>)
    /\ \A j \in 1..(Len(lines) - 1) :
          (\A m \in 1..j : LineAt(m) # <<"-", "-", "]">>)
             => (LineAt(j) # << >> /\ Opener(LineAt(j)).fn = "none")

\* the index of the first line equal to "--]" after the first line, or the
\* number of lines when there is none
FirstCardCloser ==
    IF \E j \in 1..(Len(lines) - 1) : LineAt(j) = <<"-", "-", "]">>
    THEN CHOOSE j \in 1..(Len(lines) - 1) :
            /\ LineAt(j) = <<"-", "-", "]">>
            /\ \A m \in 1..(j - 1) : LineAt(m) # <<"-", "-", "]">>
    ELSE Len(lines)

====
